---- MODULE Spec2Model ----
(***************************************************************************)
(* A model of pycnfg: Handler.read (default merge, global / None           *)
(* resolution, priority scheduling), Handler.exec and Producer.produce,    *)
(* and the run() wrapper.                                                  *)
(*                                                                         *)
(* Encoding of the Python data.                                            *)
(*  - An identifier (section id, configuration id, step id, kwarg name,    *)
(*    global key, objects key) is the sequence of the segments that        *)
(*    str.split('__') yields; f"{a}__{b}" is a \o b.  The empty string is   *)
(*    the empty sequence.  '__init__' is kept as one segment.              *)
(*  - A Python value is a record [t |-> tag, v |-> payload]: None, int,    *)
(*    str (payload: identifier), dict (payload: function from values to    *)
(*    values, so dict equality ignores order as Python's does), list,      *)
(*    class / function objects.                                            *)
(*  - A dict whose insertion order the code observes (the tree, a section, *)
(*    a sub-configuration, a 'global' map, a 'patch' map) is a sequence of *)
(*    <<key, value>> pairs with distinct keys.                             *)
(*  - An exception is a string in the field err ("none": no exception).    *)
(***************************************************************************)
EXTENDS Integers, Sequences, FiniteSets, TLC

(***************************************************************************)
(* Python values                                                           *)
(***************************************************************************)
None == [t |-> "none", v |-> <<>>]

IntV(n) == [t |-> "int", v |-> n]

StrV(name) == [t |-> "str", v |-> name]

S(a) == StrV(<<a>>)

EmptyDictV == [t |-> "dict", v |-> <<>>]

DictV(f) == [t |-> "dict", v |-> f]

ListV(s) == [t |-> "list", v |-> s]

ClassV(c) == [t |-> "class", v |-> c]

FuncV(f) == [t |-> "func", v |-> f]

\* The keys of a dict value (the domain of its payload).
DKeys(d) == DOMAIN d.v

\* d[k] = x on a dict value.
DSet(d, k, x) == DictV([j \in DKeys(d) \cup {k} |-> IF j = k THEN x ELSE d.v[j]])

\* bool(x) is False: the test `not x` of the None resolver.
Falsy(x) ==
    CASE x.t = "none" -> TRUE
      [] x.t = "int" -> x.v = 0
      [] x.t = "str" -> Len(x.v) = 0
      [] x.t = "dict" -> DKeys(x) = {}
      [] x.t = "list" -> Len(x.v) = 0
      [] OTHER -> FALSE

\* str.endswith('_id') on an identifier's last segment, by the table of the
\* segments the model uses.
IdSuffixed == {"key_id", "val_id", "x_id", "param_id", "path_id", "logger_id"}

\* f"{key}_id" on a one-segment identifier.
WithId(a) ==
    CASE a = "key" -> "key_id"
      [] a = "val" -> "val_id"
      [] a = "x" -> "x_id"
      [] a = "param" -> "param_id"
      [] a = "path" -> "path_id"
      [] a = "logger" -> "logger_id"
      [] OTHER -> "?_id"

\* key.replace('_id', '') on a one-segment identifier.
StripId(a) ==
    CASE a = "key_id" -> "key"
      [] a = "val_id" -> "val"
      [] a = "x_id" -> "x"
      [] a = "param_id" -> "param"
      [] a = "path_id" -> "path"
      [] a = "logger_id" -> "logger"
      [] OTHER -> a

\* name.endswith('_id')
EndsWithId(name) == Len(name) > 0 /\ name[Len(name)] \in IdSuffixed

\* f"{name}_id"
NameWithId(name) ==
    IF Len(name) = 0 THEN <<"_id">>
    ELSE [i \in 1..Len(name) |-> IF i = Len(name) THEN WithId(name[i]) ELSE name[i]]

\* name.replace('_id', '')
NameStripId(name) == [i \in 1..Len(name) |-> StripId(name[i])]

(***************************************************************************)
(* Ordered dicts: sequences of <<key, value>> pairs                        *)
(***************************************************************************)
GLOBAL == <<"global">>

Keys(d) == [i \in 1..Len(d) |-> d[i][1]]

KeySet(d) == {d[i][1] : i \in 1..Len(d)}

Has(d, k) == k \in KeySet(d)

Get(d, k) == d[CHOOSE i \in 1..Len(d) : d[i][1] = k][2]

\* d[k] = x: an existing key keeps its position, a new key goes last.
Put(d, k, x) ==
    IF Has(d, k)
    THEN [i \in 1..Len(d) |-> IF d[i][1] = k THEN <<k, x>> ELSE d[i]]
    ELSE Append(d, <<k, x>>)

\* del d[k] / d.pop(k)
Del(d, k) == SelectSeq(d, LAMBDA e : e[1] # k)

RECURSIVE FoldSeq(_, _, _)
\* functools.reduce / a for loop over s with the loop state acc.
FoldSeq(Op(_, _), acc, s) ==
    IF Len(s) = 0 THEN acc ELSE FoldSeq(Op, Op(acc, Head(s)), Tail(s))

\* d.update(e)
Update(d, e) == FoldSeq(LAMBDA acc, kv : Put(acc, kv[1], kv[2]), d, e)

Reverse(s) == [i \in 1..Len(s) |-> s[Len(s) + 1 - i]]

\* The identifier segments of the model in ascending order of Python's str
\* comparison.  All are lower-case words, so that comparing two joined
\* identifiers is comparing their segments from left to right.
SegOrder ==
    <<"__init__", "a", "b", "c", "conf", "d", "default", "e", "func_1",
      "global", "init", "key", "key_id", "logger", "nosuch", "param", "patch",
      "path", "print", "priority", "producer", "s", "set", "steps", "val",
      "val_id", "x", "x_id", "y", "z", "zz">>

SegRank(a) == CHOOSE i \in 1..Len(SegOrder) : SegOrder[i] = a

RECURSIVE StrLess(_, _)
\* n1 < n2 on two identifiers (str.__lt__).
StrLess(n1, n2) ==
    IF Len(n2) = 0 THEN FALSE
    ELSE IF Len(n1) = 0 THEN TRUE
    ELSE IF Head(n1) # Head(n2) THEN SegRank(Head(n1)) < SegRank(Head(n2))
    ELSE StrLess(Tail(n1), Tail(n2))

RECURSIVE InsertName(_, _)
InsertName(s, x) ==
    IF Len(s) = 0 THEN <<x>>
    ELSE IF StrLess(x, s[Len(s)])
         THEN Append(InsertName(SubSeq(s, 1, Len(s) - 1), x), s[Len(s)])
         ELSE Append(s, x)

\* The order in which a Python set holding the strings ks is iterated.  It
\* follows the strings' hashes, which differ from run to run (hash
\* randomisation) but are the same for every set of one run: h = 0 stands
\* for a run that iterates in ascending order of the strings, h = 1 for one
\* that iterates in descending order.
SetOrder(ks, h) ==
    LET sorted == FoldSeq(InsertName, <<>>, ks)
    IN  IF h = 0 THEN sorted ELSE Reverse(sorted)

\* p.keys() - {'global'}, in iteration order.
KeysNoGlobal(d, h) == SetOrder(SelectSeq(Keys(d), LAMBDA k : k # GLOBAL), h)

(***************************************************************************)
(* Handler._merge_default: the normalizer                                  *)
(***************************************************************************)
INIT == <<"init">>

PRODUCER == <<"producer">>

PATCH == <<"patch">>

STEPS == <<"steps">>

PRIORITY == <<"priority">>

\* The six structural keys of a sub-configuration, as listed in dkeys.
StructKeys == <<INIT, PRODUCER, GLOBAL, PATCH, PRIORITY, STEPS>>

\* dkeys: the built-in default of each structural key.
dkeys ==
    << <<INIT, EmptyDictV>>, <<PRODUCER, ClassV("Producer")>>, <<GLOBAL, <<>>>>,
       <<PATCH, <<>>>>, <<PRIORITY, IntV(1)>>, <<STEPS, <<>>>> >>

Ok(p) == [err |-> "none", p |-> p]

Raise(e, p) == [err |-> e, p |-> p]

\* The rest F of a computation on the value of r, unless r raised.
Bind(r, F(_)) == IF r.err # "none" THEN r ELSE F(r.p)

\* d[k] = (the value of r), with the exception of r if it raised.
PutResult(d, k, r) == [err |-> r.err, p |-> Put(d, k, r.p)]

\* s.append(the value of r), with the exception of r if it raised.
AppendResult(s, r) == [err |-> r.err, p |-> Append(s, r.p)]

\* for subkey in d.keys(): if subkey not in conf: conf[subkey] = deepcopy(d[subkey])
MergeMissing(conf, d) ==
    FoldSeq(LAMBDA acc, kv : IF Has(acc, kv[1]) THEN acc ELSE Append(acc, kv), conf, d)

\* The else branch of the first loop: every key of the working section (its
\* 'global' included) takes its missing sub-keys from the default entry of
\* the same name, or from the default section's entry at position zero.
MergeSection(sec, dsec) ==
    FoldSeq(LAMBDA acc, kv :
              IF acc.err # "none" THEN acc
              ELSE IF Has(dsec, kv[1])
                   THEN Ok(Put(acc.p, kv[1], MergeMissing(kv[2], Get(dsec, kv[1]))))
                   ELSE IF Len(dsec) = 0 THEN Raise("IndexError", acc.p)
                   ELSE Ok(Put(acc.p, kv[1], MergeMissing(kv[2], dsec[1][2]))),
            Ok(sec), sec)

\* The first loop of _merge_default: for section_id in dp.
MergeFromDefault(p, dp) ==
    FoldSeq(LAMBDA acc, kv :
              IF acc.err # "none" THEN acc
              ELSE IF ~Has(acc.p, kv[1]) THEN Ok(Append(acc.p, kv))
              ELSE IF kv[1] = GLOBAL
                   THEN Ok(Put(acc.p, GLOBAL, Update(kv[2], Get(acc.p, GLOBAL))))
                   ELSE PutResult(acc.p, kv[1],
                                  MergeSection(Get(acc.p, kv[1]), kv[2])),
            Ok(p), dp)

\* conf.update({key: deepcopy(dkeys[key]) for key in set(dkeys) - set(conf)})
FillDkeys(conf) == MergeMissing(conf, dkeys)

\* A faulty check: the decorators of a step are not looked at.
NormStep_nodecors(step) ==
    IF step[1].t # "str" THEN Raise("TypeError", step)
    ELSE IF Len(step) > 1
         THEN IF step[2].t # "dict" THEN Raise("TypeError", step)
              ELSE IF Len(step) > 2 THEN Ok(step)
                   ELSE Ok(<<step[1], step[2], ListV(<<>>)>>)
         ELSE Ok(<<step[1], EmptyDictV, ListV(<<>>)>>)

\* One step of the loop over conf['steps']: the type checks and the padding
\* with {} and [].
NormStep(step) ==
    IF step[1].t # "str" THEN Raise("TypeError", step)
    ELSE IF Len(step) > 1
         THEN IF step[2].t # "dict" THEN Raise("TypeError", step)
              ELSE IF Len(step) > 2
                   THEN IF step[3].t # "list" THEN Raise("TypeError", step)
                        ELSE Ok(step)
                   ELSE Ok(<<step[1], step[2], ListV(<<>>)>>)
         ELSE Ok(<<step[1], EmptyDictV, ListV(<<>>)>>)

\* for i, step in enumerate(conf['steps']); conf['steps'] raises KeyError
\* when the sub-configuration has no 'steps'.
NormSteps(conf) ==
    IF ~Has(conf, STEPS) THEN Raise("KeyError", conf)
    ELSE PutResult(conf, STEPS,
                   FoldSeq(LAMBDA acc, st :
                             IF acc.err # "none" THEN acc
                             ELSE AppendResult(acc.p, NormStep(st)),
                           Ok(<<>>), Get(conf, STEPS)))

\* The body of the second loop for one section: dkeys for a section that the
\* default tree lacks, then the steps of every sub-configuration.
FillSection(sec, inDefault) ==
    [i \in 1..Len(sec) |->
       IF sec[i][1] = GLOBAL \/ inDefault THEN sec[i]
       ELSE <<sec[i][1], FillDkeys(sec[i][2])>>]

NormFilled(filled) ==
    FoldSeq(LAMBDA acc, kv :
              IF acc.err # "none" \/ kv[1] = GLOBAL THEN acc
              ELSE PutResult(acc.p, kv[1], NormSteps(kv[2])),
            Ok(filled), filled)

NormSection(sec, inDefault) == NormFilled(FillSection(sec, inDefault))

\* The second loop: for section_id in p.keys() - {'global'}.
NormSections(p, dp, h) ==
    FoldSeq(LAMBDA acc, sid :
              IF acc.err # "none" THEN acc
              ELSE PutResult(acc.p, sid,
                             NormSection(Get(acc.p, sid), Has(dp, sid))),
            Ok(p), KeysNoGlobal(p, h))

\* The end of _merge_default: a 'global' key at the tree level and in every
\* section.
SectionGlobals(q) ==
    [i \in 1..Len(q) |->
       IF q[i][1] = GLOBAL \/ Has(q[i][2], GLOBAL) THEN q[i]
       ELSE <<q[i][1], Append(q[i][2], <<GLOBAL, <<>>>>)>>]

AddGlobals(p) ==
    SectionGlobals(IF Has(p, GLOBAL) THEN p ELSE Append(p, <<GLOBAL, <<>>>>))

\* Handler._merge_default(p, dp), with h the iteration order of its sets.
merge_default(p, dp, h) ==
    Bind(MergeFromDefault(p, dp),
         LAMBDA a : Bind(NormSections(a, dp, h), LAMBDA b : Ok(AddGlobals(b))))

(***************************************************************************)
(* Handler._resolve_global, _copy_global, _substitute_global               *)
(***************************************************************************)
IsStructKey(k) == \E i \in 1..Len(StructKeys) : StructKeys[i] = k

\* A faulty loop: the keys that are not structural are dropped.
AbsorbUnknown_drop(conf) ==
    Ok(SelectSeq(conf, LAMBDA e : IsStructKey(e[1])))

\* The first loop of _resolve_global for one sub-configuration: every key
\* that is not structural is popped and put into conf['global'].
AbsorbUnknown(conf) ==
    FoldSeq(LAMBDA acc, k :
              IF acc.err # "none" \/ IsStructKey(k) THEN acc
              ELSE IF ~Has(acc.p, GLOBAL) THEN Raise("KeyError", acc.p)
              ELSE Ok(Put(Del(acc.p, k), GLOBAL,
                          Put(Get(acc.p, GLOBAL), k, Get(acc.p, k)))),
            Ok(conf), Keys(conf))

\* for conf_id in p[section_id].keys() - {'global'}: one section of a loop
\* that rewrites each sub-configuration by F (which may raise).
EachConf(F(_), sec, h) ==
    FoldSeq(LAMBDA acc, cid :
              IF acc.err # "none" THEN acc
              ELSE PutResult(acc.p, cid, F(Get(acc.p, cid))),
            Ok(sec), KeysNoGlobal(sec, h))

\* for section_id in p.keys() - {'global'}: for conf_id in ...: F(conf)
EachSectionConf(F(_), p, h) ==
    FoldSeq(LAMBDA acc, sid :
              IF acc.err # "none" THEN acc
              ELSE PutResult(acc.p, sid, EachConf(F, Get(acc.p, sid), h)),
            Ok(p), KeysNoGlobal(p, h))

\* A faulty copy: an entry the child's 'global' has already is kept.
PutChildGlobal_setdefault(acc, child, key, val) ==
    IF acc.err # "none" THEN acc
    ELSE IF child = GLOBAL \/ ~Has(Get(acc.p, child), GLOBAL) THEN Raise("KeyError", acc.p)
    ELSE IF Has(Get(Get(acc.p, child), GLOBAL), key) THEN acc
    ELSE Ok(Put(acc.p, child,
                Put(Get(acc.p, child), GLOBAL,
                    Put(Get(Get(acc.p, child), GLOBAL), key, val))))

\* p[subsection_id]['global'].update({key: deepcopy(val)})
PutChildGlobal(acc, child, key, val) ==
    IF acc.err # "none" THEN acc
    ELSE IF child = GLOBAL
         \* p['global']['global']: the level's own map has no such dict.
         THEN Raise(IF Has(Get(acc.p, GLOBAL), GLOBAL) THEN "AttributeError"
                    ELSE "KeyError", acc.p)
    ELSE IF ~Has(Get(acc.p, child), GLOBAL) THEN Raise("KeyError", acc.p)
    ELSE Ok(Put(acc.p, child,
                Put(Get(acc.p, child), GLOBAL,
                    Put(Get(Get(acc.p, child), GLOBAL), key, val))))

\* i.split('__')[0]
FirstSeg(name) == IF Len(name) = 0 THEN <<>> ELSE <<Head(name)>>

\* '__'.join(i.split('__')[1:])
Reduced(name) == IF Len(name) = 0 THEN <<>> ELSE Tail(name)

\* special = {i for i in glob if i.split('__')[0] in p.keys()}
Special(p) == SelectSeq(Keys(Get(p, GLOBAL)), LAMBDA i : Has(p, FirstSeg(i)))

\* A faulty difference: the targeted entries are copied to every child too.
Broadcast_all(p) == Keys(Get(p, GLOBAL))

\* glob.keys() - special
Broadcast(p) == SelectSeq(Keys(Get(p, GLOBAL)), LAMBDA i : ~Has(p, FirstSeg(i)))

\* Handler._copy_global(p) on one level (the tree, or a section): the
\* targeted entries first, then the others to every child, then del.
CopySpecial(p, glob, h) ==
    FoldSeq(LAMBDA acc, i :
              IF acc.err # "none" THEN acc
              ELSE IF Len(Reduced(i)) = 0
                   THEN Raise("AssertionError", acc.p)
                   ELSE PutChildGlobal(acc, FirstSeg(i), Reduced(i), Get(glob, i)),
            Ok(p), SetOrder(Special(p), h))

CopyBroadcast(a, p, glob, h) ==
    FoldSeq(LAMBDA acc, i :
              FoldSeq(LAMBDA acc2, sub : PutChildGlobal(acc2, sub, i, Get(glob, i)),
                      acc, KeysNoGlobal(p, h)),
            a, SetOrder(Broadcast(p), h))

copy_global(p, h) ==
    Bind(CopyBroadcast(CopySpecial(p, Get(p, GLOBAL), h), p, Get(p, GLOBAL), h),
         LAMBDA b : Ok(Del(b, GLOBAL)))

\* The last loop of _resolve_global reads conf['global'] of every
\* sub-configuration.
CheckHasGlobal(conf) == IF Has(conf, GLOBAL) THEN Ok(conf) ELSE Raise("KeyError", conf)

\* Handler._resolve_global(p, unused)
CopySections(b, h) ==
    FoldSeq(LAMBDA acc, sid :
              IF acc.err # "none" THEN acc
              ELSE PutResult(acc.p, sid, copy_global(Get(acc.p, sid), h)),
            Ok(b), KeysNoGlobal(b, h))

resolve_global(p, h) ==
    Bind(EachSectionConf(AbsorbUnknown, p, h),
         LAMBDA a :
           Bind(copy_global(a, h),
                LAMBDA b :
                  Bind(CopySections(b, h),
                       LAMBDA c : EachSectionConf(CheckHasGlobal, c, h))))

\* copy.deepcopy(x): an object of its own.  A list or dict that a 'global'
\* of a sub-configuration holds carries the identity id; a value without id
\* is an object that nothing else refers to.
deepcopy(x) == [f \in DOMAIN x \ {"id"} |-> x[f]]

\* The sub-configuration with the lists and dicts of its 'global' told apart
\* as objects: each carries as id the key it is held under.
Identified(conf) ==
    IF ~Has(conf, GLOBAL) THEN conf
    ELSE Put(conf, GLOBAL,
             [i \in 1..Len(Get(conf, GLOBAL)) |->
                LET e == Get(conf, GLOBAL)[i]
                IN  IF e[2].t \in {"list", "dict"}
                    THEN <<e[1], [t |-> e[2].t, v |-> e[2].v, id |-> e[1]]>>
                    ELSE e])

\* A faulty body: only an argument the step left at None takes the global.
SubstituteStep_keep(step, glob_id, glob) ==
    [step EXCEPT ![2] =
        DictV([k \in DKeys(step[2]) |->
                 IF (glob_id = k.v \/ glob_id = step[1].v \o k.v)
                    /\ step[2].v[k] = None
                 THEN glob ELSE step[2].v[k]])]

\* The body of _substitute_global for one global entry and one step:
\* every kwarg named glob_id or whose step-qualified name is glob_id is
\* overwritten.
SubstituteStep(step, glob_id, glob) ==
    [step EXCEPT ![2] =
        DictV([k \in DKeys(step[2]) |->
                 IF glob_id = k.v \/ glob_id = step[1].v \o k.v
                 THEN deepcopy(glob) ELSE step[2].v[k]])]

\* Handler._substitute_global(conf, unused)
substitute_global(conf) ==
    IF ~Has(conf, GLOBAL) \/ ~Has(conf, STEPS) THEN Raise("KeyError", conf)
    ELSE Ok(Put(conf, STEPS,
                FoldSeq(LAMBDA steps, g :
                          [i \in 1..Len(steps) |-> SubstituteStep(steps[i], g[1], g[2])],
                        Get(conf, STEPS), Get(conf, GLOBAL))))

(***************************************************************************)
(* Handler._resolve_none, _substitute_none, _resolve                       *)
(***************************************************************************)
ErrAmbiguous == "ValueError: Multiple configurations provided"

\* primitive = {key for key in conf['global'] if key.replace('_id', '') not in p}
Primitive(p, conf) ==
    SelectSeq(Keys(Get(conf, GLOBAL)), LAMBDA key : ~Has(p, NameStripId(key)))

\* The loop over the steps for one primitive key: a kwarg of that name whose
\* value is falsy takes the global's value.
PrimitiveStep(step, key, glob_val) ==
    IF Len(step) <= 1 THEN step
    ELSE [step EXCEPT ![2] =
            DictV([k \in DKeys(step[2]) |->
                     IF k.v = key /\ Falsy(step[2].v[k]) THEN glob_val
                     ELSE step[2].v[k]])]

\* Handler._substitute_none for one step: kwargs[key_id] is falsy and is
\* set to the global's value or to the composite id of the one
\* sub-configuration of section key.
substitute_none(p, key, glob_val, step, key_id) ==
    IF ~Falsy(step[2].v[StrV(key_id)]) THEN Ok(step)
    ELSE IF glob_val = None
         THEN IF Len(Get(p, key)) > 1 THEN Raise(ErrAmbiguous, step)
              ELSE IF Len(Get(p, key)) = 0 THEN Raise("IndexError", step)
              ELSE Ok([step EXCEPT ![2] =
                         DSet(step[2], StrV(key_id), StrV(key \o Get(p, key)[1][1]))])
         ELSE Ok([step EXCEPT ![2] = DSet(step[2], StrV(key_id), glob_val)])

\* The loop over the steps for one section name key.
NonPrimitiveStep(p, key, glob_val, step) ==
    IF Len(step) <= 1 THEN Ok(step)
    ELSE IF StrV(key) \in DKeys(step[2])
         THEN IF Len(key) > 0 THEN substitute_none(p, key, glob_val, step, key)
              ELSE Ok(step)
         ELSE IF StrV(NameWithId(key)) \in DKeys(step[2])
              THEN substitute_none(p, key, glob_val, step, NameWithId(key))
              ELSE Ok(step)

\* The steps of one sub-configuration after the loop over one section name.
GlobVal(glob, key) ==
    IF Has(glob, key) THEN Get(glob, key)
    ELSE IF Has(glob, NameWithId(key)) THEN Get(glob, NameWithId(key))
    ELSE None

NonPrimitiveSteps(p, key, glob_val, steps) ==
    FoldSeq(LAMBDA acc, st :
              IF acc.err # "none" THEN acc
              ELSE AppendResult(acc.p, NonPrimitiveStep(p, key, glob_val, st)),
            Ok(<<>>), steps)

NonPrimitiveKey(p, conf, key) ==
    PutResult(conf, STEPS,
              NonPrimitiveSteps(p, key, GlobVal(Get(conf, GLOBAL), key),
                                Get(conf, STEPS)))

\* Handler._resolve_none(p, section_id, conf_id, ids) on the
\* sub-configuration conf of the tree p.
PrimitivePass(p, conf, h) ==
    Put(conf, STEPS,
        FoldSeq(LAMBDA steps, key :
                  [i \in 1..Len(steps) |->
                     PrimitiveStep(steps[i], key, Get(Get(conf, GLOBAL), key))],
                Get(conf, STEPS), SetOrder(Primitive(p, conf), h)))

resolve_none(p, conf, h) ==
    FoldSeq(LAMBDA acc, key :
              IF acc.err # "none" THEN acc ELSE NonPrimitiveKey(p, acc.p, key),
            Ok(PrimitivePass(p, conf, h)), SetOrder(Keys(p), h))

\* The loop body of _resolve for one sub-configuration.
ResolveConf(p, conf, flag, h) ==
    Bind(substitute_global(Identified(conf)),
         LAMBDA a : IF flag THEN resolve_none(p, a, h) ELSE Ok(a))

\* Handler._resolve(p, resolve_none)
resolve(p, flag, h) ==
    Bind(resolve_global(p, h),
         LAMBDA a : EachSectionConf(LAMBDA conf : ResolveConf(a, conf, flag, h), a, h))

(***************************************************************************)
(* Handler._priority_arrange, _check_res: the scheduler                    *)
(***************************************************************************)
ErrPriority == "ValueError: Configuration priority should be non-negative number"

ErrDuplicate == "ValueError: Non-unique configuration id found"

\* An ordered dict as a function: what dict.__eq__ compares.
AsMap(d) == [k \in KeySet(d) |-> Get(d, k)]

\* val1 == val2 on two sub-configurations (dict.__eq__, whatever the order
\* of the keys).
ConfEq(c1, c2) ==
    /\ KeySet(c1) = KeySet(c2)
    /\ \A k \in KeySet(c1) :
         IF k \in {GLOBAL, PATCH} THEN AsMap(Get(c1, k)) = AsMap(Get(c2, k))
         ELSE Get(c1, k) = Get(c2, k)

\* A faulty comparison: the larger priority counts as the smaller item.
ItemCmp_descending(x, y) ==
    IF x.prio # y.prio THEN (IF x.prio > y.prio THEN "lt" ELSE "ge")
    ELSE IF x.name # y.name THEN (IF StrLess(x.name, y.name) THEN "lt" ELSE "ge")
    ELSE IF ConfEq(x.val, y.val) THEN "ge"
    ELSE "TypeError"

\* A heap item (priority, (name, val)) is [prio, name, val]; sec and cid
\* record where val stands in the tree and are not part of the tuple.
\* x < y on two heap items: "lt", "ge", or "TypeError" when the comparison
\* reaches the two dicts ('<' not supported between 'dict' and 'dict').
ItemCmp(x, y) ==
    IF x.prio # y.prio THEN (IF x.prio < y.prio THEN "lt" ELSE "ge")
    ELSE IF x.name # y.name THEN (IF StrLess(x.name, y.name) THEN "lt" ELSE "ge")
    ELSE IF ConfEq(x.val, y.val) THEN "ge"
    ELSE "TypeError"

RECURSIVE SiftDown(_, _, _)
\* heapq._siftdown(heap, 0, pos) with the new item at pos (1-based here).
SiftDown(heap, newitem, pos) ==
    IF pos <= 1 THEN Ok([heap EXCEPT ![pos] = newitem])
    ELSE LET parentpos == pos \div 2
             c == ItemCmp(newitem, heap[parentpos])
         IN  IF c = "TypeError" THEN Raise("TypeError", heap)
             ELSE IF c = "lt"
                  THEN SiftDown([heap EXCEPT ![pos] = heap[parentpos]], newitem, parentpos)
                  ELSE Ok([heap EXCEPT ![pos] = newitem])

\* heapq.heappush(heap, item)
HeapPush(heap, item) == SiftDown(Append(heap, item), item, Len(heap) + 1)

RECURSIVE Insert(_, _)
\* One insertion of a stable sort into the sorted sequence s.
Insert(s, x) ==
    IF Len(s) = 0 THEN <<x>>
    ELSE IF ItemCmp(x, s[Len(s)]) = "lt"
         THEN Append(Insert(SubSeq(s, 1, Len(s) - 1), x), s[Len(s)])
         ELSE Append(s, x)

\* A faulty listing: the heap's array as it is, not sorted.
Sorted_heap(heap) == Ok(heap)

\* heapq.nsmallest(len(heap), heap), which is sorted(heap): a comparison
\* sort compares every two items that end up adjacent, so it raises when two
\* items agree on priority and name and their dicts differ.
Sorted(heap) ==
    IF \E i, j \in 1..Len(heap) : i # j /\ ItemCmp(heap[i], heap[j]) = "TypeError"
    THEN Raise("TypeError", heap)
    ELSE Ok(FoldSeq(Insert, <<>>, heap))

\* The entries (key, subkey, val) of res in the order of the two for loops.
Entries(res) ==
    FoldSeq(LAMBDA acc, kv :
              acc \o [i \in 1..Len(kv[2]) |->
                        [sec |-> kv[1], cid |-> kv[2][i][1], val |-> kv[2][i][2]]],
            <<>>, res)

HeapItem(e) ==
    [prio |-> Get(e.val, PRIORITY).v, name |-> e.sec \o e.cid, val |-> e.val,
     sec |-> e.sec, cid |-> e.cid]

\* A faulty loop body: a sub-configuration of priority 0 is pushed as well.
PushEntry_zero(acc, e) ==
    IF acc.err # "none" THEN acc
    ELSE IF ~Has(e.val, PRIORITY) THEN Raise("KeyError", acc.p)
    ELSE IF Get(e.val, PRIORITY).t # "int" \/ Get(e.val, PRIORITY).v < 0
         THEN Raise(ErrPriority, acc.p)
         ELSE HeapPush(acc.p, HeapItem(e))

\* The body of the loops of _priority_arrange for one sub-configuration:
\* the check of its priority, and the push unless the priority is 0.
PushEntry(acc, e) ==
    IF acc.err # "none" THEN acc
    ELSE IF ~Has(e.val, PRIORITY) THEN Raise("KeyError", acc.p)
    ELSE IF Get(e.val, PRIORITY).t # "int" \/ Get(e.val, PRIORITY).v < 0
         THEN Raise(ErrPriority, acc.p)
         ELSE IF Get(e.val, PRIORITY).v # 0 THEN HeapPush(acc.p, HeapItem(e))
              ELSE acc

\* Handler._priority_arrange(res): the list of (name, val) in execution order.
priority_arrange(res) == Bind(FoldSeq(PushEntry, Ok(<<>>), Entries(res)), Sorted)

\* A faulty check: repeated identifiers are let through.
check_res_pass(tup) == Ok(tup)

\* Handler._check_res(tup)
check_res(tup) ==
    IF \E i, j \in 1..Len(tup) : i # j /\ tup[i].name = tup[j].name
    THEN Raise(ErrDuplicate, tup)
    ELSE Ok(tup)

\* res = self._priority_arrange(p); self._check_res(res)
arrange(p) == Bind(priority_arrange(p), check_res)

\* Handler._parse_cnfg(p, dp, resolve_none)
parse_cnfg(p, dp, flag, h) ==
    Bind(merge_default(p, dp, h),
         LAMBDA a : Bind(resolve(a, flag, h), arrange))

(***************************************************************************)
(* Producers: pycnfg.Producer and the CustomProducer of the tests          *)
(***************************************************************************)
INITSTEP == S("__init__")

\* The keyword parameters of each producer class's __init__.
CtorParams(cls) ==
    IF cls = "Producer" THEN {S("path_id"), S("logger_id")}
    ELSE IF cls = "CustomProducer" THEN {S("param")}
    ELSE {}

\* The attributes getattr(self, method) finds on an instance of each class,
\* by name, with what implements them.  (dump_cache and load_cache of
\* pycnfg.Producer do file I/O and are left out: no step of the model names
\* them.)
ClassMethods(cls) ==
    IF cls = "CustomProducer"
    THEN [m \in {<<"__init__">>, <<"set">>, <<"print">>} |->
            IF m = <<"set">> THEN "CustomProducer.set"
            ELSE IF m = <<"print">> THEN "CustomProducer.print"
            ELSE "CustomProducer.__init__"]
    ELSE [m \in {<<"__init__">>} |-> "Producer.__init__"]

\* Producer.__init__(objects, oid, path_id=None, logger_id=None) and
\* CustomProducer.__init__(objects, oid, param=None): the instance, or the
\* exception of a bad keyword or of objects[logger_id] / objects[path_id].
NewProducer(cls, objects, oid, ikwargs) ==
    IF ~(DKeys(ikwargs) \subseteq CtorParams(cls)) THEN Raise("TypeError", None)
    ELSE IF cls = "Producer"
            /\ \E k \in DKeys(ikwargs) :
                 /\ ikwargs.v[k] # None
                 /\ (ikwargs.v[k].t # "str" \/ ikwargs.v[k].v \notin DOMAIN objects)
         THEN Raise("KeyError", None)
    ELSE Ok([cls |-> cls, oid |-> oid, methods |-> ClassMethods(cls),
             kwargs |-> ikwargs, wraps |-> <<>>])

\* The call impl(self, obj, **kwargs) of a step method: its result, or the
\* exception it raises.
\*   CustomProducer.set(self, obj, key, val=42):  obj[key] = val; return obj
\*   CustomProducer.print(self, obj, key='a'):    print(obj[key]); return obj
\*   func_1(self, res, param):                    res['param'] = param; return res
\*   func_2(self, res, param_id):                 res['param_id'] = param_id; return res
\* obj is a dict wherever the model calls set, print or func_1 with success;
\* on an int or None the item access raises TypeError.
CallMethod(impl, obj, kwargs) ==
    CASE impl = "CustomProducer.set" ->
           IF ~(DKeys(kwargs) \subseteq {S("key"), S("val")}) \/ S("key") \notin DKeys(kwargs)
           THEN Raise("TypeError", obj)
           ELSE IF obj.t # "dict" \/ kwargs.v[S("key")].t \in {"dict", "list"}
                THEN Raise("TypeError", obj)
                ELSE Ok(DSet(obj, kwargs.v[S("key")],
                             IF S("val") \in DKeys(kwargs) THEN kwargs.v[S("val")]
                             ELSE IntV(42)))
      [] impl = "CustomProducer.print" ->
           IF ~(DKeys(kwargs) \subseteq {S("key")}) THEN Raise("TypeError", obj)
           ELSE LET key == IF S("key") \in DKeys(kwargs) THEN kwargs.v[S("key")]
                           ELSE S("a")
                IN  IF obj.t # "dict" \/ key.t \in {"dict", "list"}
                    THEN Raise("TypeError", obj)
                    ELSE IF key \notin DKeys(obj) THEN Raise("KeyError", obj)
                    ELSE Ok(obj)
      [] impl \in {"CustomProducer.__init__", "Producer.__init__"} ->
           \* __init__(objects=obj, **kwargs): oid is a required parameter;
           \* Producer.__init__ reads objects[logger_id], objects[path_id].
           LET cls == IF impl = "Producer.__init__" THEN "Producer" ELSE "CustomProducer"
               ids == {k \in DKeys(kwargs) \cap {S("path_id"), S("logger_id")} :
                         kwargs.v[k] # None}
           IN  IF S("oid") \notin DKeys(kwargs)
                  \/ ~(DKeys(kwargs) \subseteq CtorParams(cls) \cup {S("oid")})
               THEN Raise("TypeError", obj)
               ELSE IF ids # {} /\ obj.t # "dict" THEN Raise("TypeError", obj)
               ELSE IF \E k \in ids : kwargs.v[k].t \in {"dict", "list"}
               THEN Raise("TypeError", obj)
               ELSE IF \E k \in ids : kwargs.v[k] \notin DKeys(obj)
               THEN Raise("KeyError", obj)
               ELSE Ok(None)
      [] impl = "func_1" ->
           IF DKeys(kwargs) # {S("param")} \/ obj.t # "dict" THEN Raise("TypeError", obj)
           ELSE Ok(DSet(obj, S("param"), kwargs.v[S("param")]))
      [] impl = "func_2" ->
           IF DKeys(kwargs) # {S("param_id")} \/ obj.t # "dict"
           THEN Raise("TypeError", obj)
           ELSE Ok(DSet(obj, S("param_id"), kwargs.v[S("param_id")]))
      [] OTHER -> Raise("TypeError", obj)

(***************************************************************************)
(* Handler._exec, _init_kwargs, _patch and Producer.produce                *)
(***************************************************************************)
\* init = init() when init is a class or a function.
CallInit(init) ==
    IF init.t = "class" /\ init.v = "dict" THEN EmptyDictV
    ELSE IF init.t = "func" /\ init.v = "find_path" THEN S("workdir")
    ELSE init

\* Handler._init_kwargs(steps): the kwargs and decorators of the '__init__'
\* step, which is deleted from steps; IndexError when it is not the first.
init_kwargs(steps) ==
    LET at == {i \in 1..Len(steps) : steps[i][1] = INITSTEP}
    IN  IF at = {} THEN [err |-> "none", kwargs |-> EmptyDictV, decors |-> ListV(<<>>),
                         steps |-> steps]
        ELSE IF 1 \notin at THEN [err |-> "IndexError", kwargs |-> EmptyDictV,
                                  decors |-> ListV(<<>>), steps |-> steps]
        ELSE [err |-> "none", kwargs |-> steps[1][2], decors |-> steps[1][3],
              steps |-> Tail(steps)]

\* Handler._patch(patch, producer): setattr(producer, key, MethodType(val,
\* producer)) for every patch entry; an entry given as a str (the name of an
\* existing method) makes producer.__getattribute__(val) raise AttributeError
\* when there is no such method, and MethodType(val, producer) raise
\* TypeError otherwise, val being a str and not callable.
patch_producer(patch, producer) ==
    FoldSeq(LAMBDA acc, kv :
              IF acc.err # "none" THEN acc
              ELSE IF kv[2].t = "str"
                   THEN IF kv[2].v \notin DOMAIN acc.p.methods
                        THEN Raise("AttributeError", acc.p)
                        ELSE Raise("TypeError", acc.p)
              ELSE IF kv[2].t # "func" THEN Raise("TypeError", acc.p)
              ELSE Ok([acc.p EXCEPT !.methods =
                         [m \in DOMAIN acc.p.methods \cup {kv[1]} |->
                            IF m = kv[1] THEN kv[2].v ELSE acc.p.methods[m]]]),
            Ok(producer), patch)

\* A faulty lookup: the value is passed as it is declared.
ResolveOne_keep(v, objects) == v

\* objects[v] if isinstance(v, str) and v in objects else v
ResolveOne(v, objects) ==
    IF v.t = "str" /\ v.v \in DOMAIN objects THEN objects[v.v] ELSE v

\* Producer._resolve_object(kwargs, objects)
resolve_object(kwargs, objects) ==
    DictV([k \in DKeys(kwargs) |->
             IF EndsWithId(k.v) THEN kwargs.v[k]
             ELSE IF kwargs.v[k].t = "list"
                  THEN ListV([i \in 1..Len(kwargs.v[k].v) |->
                                ResolveOne(kwargs.v[k].v[i], objects)])
                  ELSE ResolveOne(kwargs.v[k], objects)])

\* The decorators of the model: functions that take a callable and return
\* a wrapper which, when called, reports that it is entered and then calls
\* the callable with the same arguments (as decorator of the tests).
Decorators == {"decorator", "decorator_2"}

\* A faulty composition: the first decorator ends up outermost.
reduce_decors_outward(decors) ==
    FoldSeq(LAMBDA acc, y :
              IF acc.err # "none" THEN acc
              ELSE IF y.t = "func" /\ y.v \in Decorators THEN Ok(Append(acc.p, y.v))
              ELSE Raise("TypeError", acc.p),
            Ok(<<>>), decors.v)

\* functools.reduce(lambda x, y: y(x), decors, f): the wrappers around f
\* from the outermost to the innermost, which is the order in which a call
\* enters them; TypeError for a y that cannot be called with f.
reduce_decors(decors) ==
    FoldSeq(LAMBDA acc, y :
              IF acc.err # "none" THEN acc
              ELSE IF y.t = "func" /\ y.v \in Decorators THEN Ok(<<y.v>> \o acc.p)
              ELSE Raise("TypeError", acc.p),
            Ok(<<>>), decors.v)

\* self.objects once a step has run __init__(objects=obj, oid=...) on the
\* producer: the str keys of obj as identifiers.
AsObjects(obj) ==
    [n \in {k.v : k \in {x \in DKeys(obj) : x.t = "str"}} |-> obj.v[StrV(n)]]

\* The state of the loop of produce() after the call of impl returned r: a
\* step that runs the producer's own __init__ rebinds self.objects to the
\* running object and self.oid to its oid argument (an identifier when it
\* is a str).
AfterCall(acc, impl, kwargs, r) ==
    IF r.err = "none" /\ impl \in {"CustomProducer.__init__", "Producer.__init__"}
    THEN [acc EXCEPT !.store = IF acc.res.t = "dict" THEN AsObjects(acc.res) ELSE <<>>,
                     !.lookup = acc.res.t = "dict",
                     !.oid = IF kwargs.v[S("oid")].t = "str"
                             THEN kwargs.v[S("oid")].v ELSE <<>>]
    ELSE acc

\* Some argument of kwargs is looked up in self.objects by _resolve_object.
NeedsLookup(kwargs) ==
    \E k \in DKeys(kwargs) :
       /\ ~EndsWithId(k.v)
       /\ \/ kwargs.v[k].t = "str"
          \/ kwargs.v[k].t = "list" /\ \E i \in 1..Len(kwargs.v[k].v) :
                                          kwargs.v[k].v[i].t = "str"

\* A faulty iteration: a step whose method the producer has not is skipped.
ProduceStep_skip(acc, step, producer, objects) ==
    IF acc.err # "none" \/ step[1].v \notin DOMAIN producer.methods THEN acc
    ELSE IF step[2].t # "dict" THEN [acc EXCEPT !.err = "ValueError"]
    ELSE LET kwargs == resolve_object(step[2], acc.store)
             wr == reduce_decors(step[3])
             r == CallMethod(producer.methods[step[1].v], acc.res, kwargs)
         IN  [AfterCall(acc, producer.methods[step[1].v], kwargs, r) EXCEPT
                 !.err = r.err, !.res = r.p,
                 !.steps = Append(acc.steps, [step EXCEPT ![2] = kwargs]),
                 !.calls = Append(acc.calls,
                                  [oid |-> acc.oid, method |-> step[1].v,
                                   impl |-> producer.methods[step[1].v],
                                   arg |-> acc.res, kwargs |-> kwargs,
                                   wraps |-> wr.p])]

\* One iteration of the loop of produce() over the steps.  The loop state
\* is the running object res, the steps as _resolve_object leaves them, the
\* calls made so far, and self.objects and self.oid (lookup tells that
\* self.objects supports `in`).
ProduceStep(acc, step, producer, objects) ==
    IF acc.err # "none" THEN acc
    ELSE IF step[2].t # "dict" THEN [acc EXCEPT !.err = "ValueError"]
    ELSE IF ~acc.lookup /\ NeedsLookup(step[2]) THEN [acc EXCEPT !.err = "TypeError"]
    ELSE LET kwargs == resolve_object(step[2], acc.store)
             done == Append(acc.steps, [step EXCEPT ![2] = kwargs])
             wr == reduce_decors(step[3])
         IN  IF step[1].v \notin DOMAIN producer.methods
             THEN [acc EXCEPT !.err = "AttributeError", !.steps = done]
             ELSE IF wr.err # "none"
             THEN [acc EXCEPT !.err = wr.err, !.steps = done]
             ELSE LET impl == producer.methods[step[1].v]
                      r == CallMethod(impl, acc.res, kwargs)
                  IN  [AfterCall(acc, impl, kwargs, r) EXCEPT
                          !.err = r.err, !.res = r.p, !.steps = done,
                          !.calls = Append(acc.calls,
                                           [oid |-> acc.oid, method |-> step[1].v,
                                            impl |-> impl,
                                            arg |-> acc.res, kwargs |-> kwargs,
                                            wraps |-> wr.p])]

\* The state of the loop of produce() before the first step.
LoopStart(producer, objects, init) ==
    [err |-> "none", res |-> init, steps |-> <<>>, calls |-> <<>>,
     store |-> objects, lookup |-> TRUE, oid |-> producer.oid]

\* A faulty produce(): every step is called on init, the running object is
\* not threaded from one step to the next.
produce_unthreaded(producer, objects, init, steps) ==
    FoldSeq(LAMBDA acc, step :
              ProduceStep([acc EXCEPT !.res = init], step, producer, objects),
            LoopStart(producer, objects, init), steps)

\* Producer.produce(init, steps)
produce(producer, objects, init, steps) ==
    FoldSeq(LAMBDA acc, step : ProduceStep(acc, step, producer, objects),
            LoopStart(producer, objects, init), steps)

(***************************************************************************)
(* pycnfg.CNFG, the default configuration of Handler.read                  *)
(***************************************************************************)
\* The logger instance of default.py, an opaque object.
LoggerV == [t |-> "logger", v |-> <<"default">>]

DefaultConf(init) ==
    << <<INIT, init>>, <<PRODUCER, ClassV("Producer")>>, <<GLOBAL, <<>>>>,
       <<PATCH, <<>>>>, <<PRIORITY, IntV(1)>>, <<STEPS, <<>>>> >>

CNFG ==
    << <<<<"path">>, << <<<<"default">>, DefaultConf(FuncV("find_path"))>> >>>>,
       <<<<"logger">>, << <<<<"default">>, DefaultConf(LoggerV)>> >>>> >>

\* A faulty default: an empty default tree is taken for none given.
read_dcnfg_falsy(given, d) == IF given /\ Len(d) > 0 THEN d ELSE CNFG

\* Handler.read: if dcnfg is None: dcnfg = copy.deepcopy(pycnfg.CNFG)
read_dcnfg(given, d) == IF given THEN d ELSE CNFG

(***************************************************************************)
(* The state machine: one call of pycnfg.run(conf, dcnfg, objects), or of  *)
(* Handler.read(cnfg, dcnfg, resolve_none) followed by                     *)
(* Handler.exec(configs, objects)                                          *)
(***************************************************************************)
VARIABLES
    call,       \* the caller's arguments: [entry, dcnfgGiven, noneArg]
    cnfg,       \* the configuration tree passed in
    dcnfg,      \* the default tree passed in (when call.dcnfgGiven)
    seed,       \* the objects passed in ({} when the caller passes None)
    h,          \* the iteration order of this run's sets of strings
    pc,         \* where the call stands
    p,          \* the tree being read
    dp,         \* the default tree read() works with
    flag,       \* resolve_none as read() received it
    configs,    \* the list read() returned
    idx,        \* the position of exec()'s loop in configs
    objects,    \* the objects storage
    producer,   \* the producer instance of the sub-configuration being built
    res,        \* its initial object
    err,        \* the exception that ended the call
    log,        \* history: producers constructed and results stored, in order
    calls       \* history: the step methods called, with their arguments

vars == <<call, cnfg, dcnfg, seed, h, pc, p, dp, flag, configs, idx, objects,
          producer, res, err, log, calls>>

inputs == <<call, cnfg, dcnfg, seed, h>>

NoProducer ==
    [cls |-> "none", oid |-> <<>>, methods |-> <<>>, kwargs |-> EmptyDictV,
     wraps |-> <<>>]

\* The state before the call, for given arguments.
Start ==
    /\ pc = "call"
    /\ p = <<>>
    /\ dp = <<>>
    /\ flag = FALSE
    /\ configs = <<>>
    /\ idx = 1
    /\ objects = seed
    /\ producer = NoProducer
    /\ res = None
    /\ err = "none"
    /\ log = <<>>
    /\ calls = <<>>

\* The exception e leaves the call; pc stays at the phase that raised it.
Fail(e) ==
    /\ err' = e
    /\ pc' = pc

\* run(conf, dcnfg=None, objects=None, beep=False) takes no resolve_none:
\* a call that passes it raises TypeError.  Handler.read(cnfg, dcnfg=None,
\* resolve_none=False) takes it; dcnfg=None stands for pycnfg.CNFG.
Call ==
    /\ pc = "call"
    /\ err = "none"
    /\ IF call.entry = "run" /\ call.noneArg # "absent"
       THEN Fail("TypeError") /\ UNCHANGED <<p, dp, flag>>
       ELSE /\ p' = cnfg
            /\ dp' = read_dcnfg(call.dcnfgGiven, dcnfg)
            /\ flag' = (call.entry = "read" /\ call.noneArg = "True")
            /\ pc' = "merge"
            /\ err' = err
    /\ UNCHANGED <<inputs, configs, idx, objects, producer, res, log, calls>>

\* p = self._merge_default(p, dp)
MergeDefault ==
    /\ pc = "merge"
    /\ err = "none"
    /\ LET r == merge_default(p, dp, h)
       IN  IF r.err # "none" THEN Fail(r.err) /\ p' = p
           ELSE p' = r.p /\ pc' = "resolve" /\ err' = err
    /\ UNCHANGED <<inputs, dp, flag, configs, idx, objects, producer, res, log, calls>>

\* p = self._resolve(p, resolve_none)
Resolve ==
    /\ pc = "resolve"
    /\ err = "none"
    /\ LET r == resolve(p, flag, h)
       IN  IF r.err # "none" THEN Fail(r.err) /\ p' = p
           ELSE p' = r.p /\ pc' = "arrange" /\ err' = err
    /\ UNCHANGED <<inputs, dp, flag, configs, idx, objects, producer, res, log, calls>>

\* res = self._priority_arrange(p); self._check_res(res); return res
Arrange ==
    /\ pc = "arrange"
    /\ err = "none"
    /\ LET r == arrange(p)
       IN  IF r.err # "none" THEN Fail(r.err) /\ configs' = configs
           ELSE configs' = r.p /\ pc' = "exec" /\ err' = err
    /\ UNCHANGED <<inputs, p, dp, flag, idx, objects, producer, res, log, calls>>

\* Handler._exec up to the construction of the producer, for configs[idx].
Construct ==
    /\ pc = "exec"
    /\ err = "none"
    /\ idx <= Len(configs)
    /\ LET item == configs[idx]
           conf == item.val
       IN  IF \E k \in {INIT, STEPS, PRODUCER, PATCH} : ~Has(conf, k)
           THEN Fail("KeyError") /\ UNCHANGED <<configs, producer, res, log>>
           ELSE IF Get(conf, PRODUCER).t # "class"
           THEN Fail("TypeError") /\ UNCHANGED <<configs, producer, res, log>>
           ELSE LET ik == init_kwargs(Get(conf, STEPS))
                    wr == reduce_decors(ik.decors)
                    np == Bind(wr, LAMBDA w :
                                 NewProducer(Get(conf, PRODUCER).v, objects,
                                             item.name, ik.kwargs))
                IN  IF ik.err # "none"
                    THEN Fail(ik.err) /\ UNCHANGED <<configs, producer, res, log>>
                    ELSE /\ configs' = [configs EXCEPT ![idx].val =
                                           Put(conf, STEPS, ik.steps)]
                         /\ IF np.err # "none"
                            THEN Fail(np.err) /\ UNCHANGED <<producer, res, log>>
                            ELSE /\ producer' = [np.p EXCEPT !.wraps = wr.p]
                                 /\ res' = CallInit(Get(conf, INIT))
                                 /\ log' = Append(log, [ev |-> "construct", i |-> idx])
                                 /\ pc' = "produce"
                                 /\ err' = err
    /\ UNCHANGED <<inputs, p, dp, flag, idx, objects, calls>>

\* A faulty store: the result is kept and the entries stored before it lost.
StoreObject_clear(store, oid, val) == [k \in {oid} |-> val]

\* Handler.exec: objects[oid] = self._exec(oid, val, objects)
StoreObject(store, oid, val) ==
    [k \in DOMAIN store \cup {oid} |-> IF k = oid THEN val ELSE store[k]]

\* The rest of Handler._exec for configs[idx], _patch and produce(), and
\* objects[oid] = ... in Handler.exec.
Produce ==
    /\ pc = "produce"
    /\ err = "none"
    /\ LET item == configs[idx]
           conf == item.val
           steps == Get(conf, STEPS)
           pt == patch_producer(Get(conf, PATCH), producer)
           r == produce(pt.p, objects, res, steps)
       IN  IF pt.err # "none"
           THEN Fail(pt.err) /\ UNCHANGED <<configs, idx, objects, producer, log, calls>>
           ELSE /\ producer' = pt.p
                /\ configs' = [configs EXCEPT ![idx].val =
                                  Put(conf, STEPS,
                                      r.steps \o SubSeq(steps, Len(r.steps) + 1,
                                                        Len(steps)))]
                /\ calls' = calls \o r.calls
                /\ IF r.err # "none"
                   THEN Fail(r.err) /\ UNCHANGED <<idx, objects, log>>
                   ELSE /\ objects' = StoreObject(objects, item.name, r.res)
                        /\ log' = Append(log, [ev |-> "store", i |-> idx])
                        /\ idx' = idx + 1
                        /\ pc' = "exec"
                        /\ err' = err
    /\ UNCHANGED <<inputs, p, dp, flag, res>>

\* return objects
Return ==
    /\ pc = "exec"
    /\ err = "none"
    /\ idx > Len(configs)
    /\ pc' = "done"
    /\ UNCHANGED <<inputs, p, dp, flag, configs, idx, objects, producer, res, err,
                   log, calls>>

Next ==
    \/ Call
    \/ MergeDefault
    \/ Resolve
    \/ Arrange
    \/ Construct
    \/ Produce
    \/ Return

(***************************************************************************)
(* Building blocks of the calls the specifications start from              *)
(***************************************************************************)
\* The sequences over Pool of length at most n.
Seqs(Pool, n) == UNION {[1..k -> Pool] : k \in 0..n}

Kw1(a, x) == DictV([j \in {S(a)} |-> x])

Kw2(a, x, b, y) == DictV([j \in {S(a), S(b)} |-> IF j = S(a) THEN x ELSE y])

\* {'a': 7}, the initial object of the tests.
A7 == Kw1("a", IntV(7))

CP == ClassV("CustomProducer")

CallArgs(entry, given, none) ==
    [entry |-> entry, dcnfgGiven |-> given, noneArg |-> none]

\* pycnfg.run(cnfg, dcnfg=..., objects=...), and Handler().read(cnfg,
\* dcnfg=..., resolve_none=False) followed by Handler().exec(...).
PlainCalls == {CallArgs("run", TRUE, "absent"), CallArgs("read", TRUE, "False")}

\* The objects the caller passes in: none, and the {'a__b': 7} of the tests.
Seeds == {<<>>, (<<"a", "b">> :> IntV(7))}

(***************************************************************************)
(* SpecFold: one sub-configuration s__c of CustomProducer steps            *)
(***************************************************************************)
\* The longest list of steps.
MaxSteps == 2

\* Steps as the tests write them: 1-, 2- and 3-tuples.
FoldSteps ==
    { <<S("set"), Kw2("key", S("b"), "val", IntV(42))>>,
      <<S("set"), Kw1("key", S("b"))>>,
      <<S("set"), Kw2("key", S("b"), "val", IntV(1)), ListV(<<>>)>>,
      <<S("set"), Kw2("key", S("c"), "val", S("b"))>>,
      <<S("print"), Kw1("key", S("b"))>>,
      <<S("print")>> }

FoldConfs ==
    { << <<INIT, init>>, <<PRODUCER, CP>>, <<STEPS, steps>> >> \o pr :
        init \in {A7, ClassV("dict")},
        steps \in Seqs(FoldSteps, MaxSteps),
        pr \in {<<>>, << <<PRIORITY, IntV(2)>> >>} }

\* Seeds: with 'b' in the store a step argument 'b' names a stored object;
\* with 's__c' in the store the result replaces a stored object.
FoldSeeds ==
    Seeds \cup {(<<"b">> :> S("z")), (<<"s", "c">> :> IntV(1))}

InitFold ==
    /\ call \in PlainCalls
    /\ \E conf \in FoldConfs : cnfg = << <<<<"s">>, << <<<<"c">>, conf>> >>>> >>
    /\ dcnfg = <<>>
    /\ seed \in FoldSeeds
    /\ h \in {0, 1}
    /\ Start

SpecFold == InitFold /\ [][Next]_vars

\* The keyword arguments a step declares ({} for a 1-tuple), with every str
\* value that is a key of the store replaced by the stored object.
DeclaredKwargs(step, store) ==
    LET kw == IF Len(step) >= 2 THEN step[2] ELSE EmptyDictV
    IN  DictV([k \in DKeys(kw) |->
                 IF kw.v[k].t = "str" /\ kw.v[k].v \in DOMAIN store
                 THEN store[kw.v[k].v] ELSE kw.v[k]])

RECURSIVE FoldOver(_, _, _, _)
\* obj_n of obj_0 = obj, obj_i = P.method_i(obj_(i-1), **kwargs_i).
FoldOver(cls, steps, obj, store) ==
    IF Len(steps) = 0 THEN obj
    ELSE FoldOver(cls, Tail(steps),
                  CallMethod(ClassMethods(cls)[Head(steps)[1].v], obj,
                             DeclaredKwargs(Head(steps), store)).p,
                  store)

\* The object a sub-configuration declares: its init, called when it is a
\* class, and its steps folded over it.
Declared(conf, store) ==
    FoldOver(Get(conf, PRODUCER).v, Get(conf, STEPS),
             IF Get(conf, INIT) = ClassV("dict") THEN EmptyDictV ELSE Get(conf, INIT),
             store)

\* C1: after a successful run the store holds, under the CompositeId of a
\* sub-configuration with steps (m_1, kw_1) .. (m_n, kw_n), producer P and
\* seed S, the fold obj_n with obj_0 = S (S() for a class) and obj_i =
\* P.m_i(obj_(i-1), **kw_i); init {'a': 7} with steps set(key='b', val=42),
\* print(key='b') gives {'a': 7, 'b': 42}.
C1_Fold ==
    pc = "done" =>
       /\ \A i \in 1..Len(cnfg) : \A j \in 1..Len(cnfg[i][2]) :
            LET oid == cnfg[i][1] \o cnfg[i][2][j][1]
            IN  /\ oid \in DOMAIN objects
                /\ objects[oid] = Declared(cnfg[i][2][j][2], seed)
       /\ (/\ Get(cnfg[1][2][1][2], INIT) = A7
           /\ Get(cnfg[1][2][1][2], STEPS) =
                << <<S("set"), Kw2("key", S("b"), "val", IntV(42))>>,
                   <<S("print"), Kw1("key", S("b"))>> >>
           /\ <<"b">> \notin DOMAIN seed)
          => objects[<<"s", "c">>] = DictV((S("a") :> IntV(7)) @@ (S("b") :> IntV(42)))

\* A run with 'b' -> 'z' in the store has stored {'a': 7, 'z': 42, 'c': 'z'}:
\* both steps took the stored object for their argument 'b', and the second
\* step worked on the result of the first.
C1_Witness ==
    /\ pc = "done"
    /\ seed = (<<"b">> :> S("z"))
    /\ Len(Get(cnfg[1][2][1][2], STEPS)) = 2
    /\ Len(calls) = 2
    /\ calls[2].arg # Get(cnfg[1][2][1][2], INIT)
    /\ objects[<<"s", "c">>] =
         DictV((S("a") :> IntV(7)) @@ (S("z") :> IntV(42)) @@ (S("c") :> S("z")))

(***************************************************************************)
(* SpecSched: two sub-configurations with priorities, in one section or in *)
(* two; section 'a' with 'b__c' and section 'a__b' with 'c' both give the  *)
(* composite id a__b__c                                                    *)
(***************************************************************************)
\* The largest priority.
MaxPriority == 2

ABC == <<"a", "b", "c">>

\* A step whose argument val is the composite id a__b__c.
RefStep == <<S("set"), Kw2("key", S("b"), "val", StrV(ABC))>>

SchedConfs ==
    { << <<INIT, init>>, <<PRODUCER, CP>>, <<STEPS, steps>> >> \o pr :
        init \in {A7, Kw1("a", IntV(1))},
        steps \in {<<>>, <<RefStep>>},
        pr \in {<<>>} \cup {<< <<PRIORITY, IntV(n)>> >> : n \in 0..MaxPriority} }

SchedTrees ==
    UNION { { << <<<<"a">>, << <<<<"b", "c">>, x>>, <<<<"d">>, y>> >>>> >>,
              << <<<<"a">>, << <<<<"d">>, x>> >>>>,
                 <<<<"a", "b">>, << <<<<"c">>, y>> >>>> >>,
              << <<<<"a">>, << <<<<"b", "c">>, x>> >>>>,
                 <<<<"a", "b">>, << <<<<"c">>, y>> >>>> >> } :
            x \in SchedConfs, y \in SchedConfs }

InitSched ==
    /\ call \in PlainCalls
    /\ cnfg \in SchedTrees
    /\ dcnfg = <<>>
    /\ seed \in {<<>>, (ABC :> IntV(7))}
    /\ h \in {0, 1}
    /\ Start

SpecSched == InitSched /\ [][Next]_vars

\* The sub-configurations of the tree being read, as (section id,
\* configuration id) pairs, and their priorities (after normalization).
SubConfs ==
    UNION {{<<p[i][1], p[i][2][j][1]>> : j \in 1..Len(p[i][2])} : i \in 1..Len(p)}

PriorityOf(sc) == Get(Get(Get(p, sc[1]), sc[2]), PRIORITY).v

CompositeId(sc) == sc[1] \o sc[2]

\* configs[k] is the sub-configuration sc.
Scheduled(k, sc) == configs[k].sec = sc[1] /\ configs[k].cid = sc[2]

C3_AsStated ==
    pc \in {"exec", "produce", "done"} =>
       \A Z \in SubConfs : PriorityOf(Z) = 0 =>
          /\ \A k \in 1..Len(configs) : ~Scheduled(k, Z)
          /\ CompositeId(Z) \in DOMAIN objects => CompositeId(Z) \in DOMAIN seed

\* C3: a sub-configuration of priority 0 is never executed, and its
\* composite id is never a key of the objects store unless the seed objects
\* had it or a sub-configuration of non-zero priority has the same composite
\* id.
C3_ZeroSkipped ==
    pc \in {"exec", "produce", "done"} =>
       \A Z \in SubConfs : PriorityOf(Z) = 0 =>
          /\ \A k \in 1..Len(configs) : ~Scheduled(k, Z)
          /\ (/\ CompositeId(Z) \in DOMAIN objects
              /\ \A Y \in SubConfs :
                   CompositeId(Y) = CompositeId(Z) => PriorityOf(Y) = 0)
             => CompositeId(Z) \in DOMAIN seed

\* a__b__c has priority 0 and a__d, whose step names a__b__c, was built: the
\* step got the string, the store has no a__b__c.
C3_Witness ==
    /\ pc = "done"
    /\ Len(p) = 1
    /\ PriorityOf(<<<<"a">>, <<"b", "c">>>>) = 0
    /\ Len(calls) = 1
    /\ calls[1].oid = <<"a", "d">>
    /\ calls[1].kwargs.v[S("val")] = StrV(ABC)
    /\ DOMAIN objects = {<<"a", "d">>}

\* C6: two sub-configurations of non-zero priority with the same composite
\* id make scheduling fail with the duplicate-identifier error, whatever
\* their priorities and contents, and never reach execution.
C6_DuplicateRejected ==
    (/\ pc \in {"arrange", "exec", "produce", "done"}
     /\ \E A, B \in SubConfs :
          /\ A # B
          /\ CompositeId(A) = CompositeId(B)
          /\ PriorityOf(A) # 0
          /\ PriorityOf(B) # 0)
    => /\ pc = "arrange"
       /\ err \in {"none", ErrDuplicate}

MaxArgSteps == 2

ArgSteps ==
    { <<S("set"), Kw2("key", S("a"), "val", IntV(42))>>,
      <<S("set"), Kw2("key", None, "val", IntV(42))>>,
      <<S("print"), Kw1("key", S("a"))>>,
      <<S("set"), Kw2("key", S("z"), "key_id", None)>>,
      <<S("print"), Kw1("key_id", None)>> }

\* The tree-level 'global': absent, an unqualified entry, an unqualified and
\* a step-qualified entry for the same argument, an entry for key_id.
TreeGlobals ==
    { <<>>,
      << <<GLOBAL, << <<<<"key">>, S("b")>> >>>> >>,
      << <<GLOBAL, << <<<<"key">>, S("b")>>, <<<<"print", "key">>, S("x")>> >>>> >>,
      << <<GLOBAL, << <<<<"key_id">>, None>> >>>> >> }

\* The 'global' of section s: absent, or an entry for the same argument.
SectionGlobals_s ==
    { <<>>, << <<GLOBAL, << <<<<"key">>, S("e")>> >>>> >> }

\* A key of s__c that is none of the six: absent, or key.
ExtraKeys == { <<>>, << <<<<"key">>, S("f")>> >> }

\* {'init': 'b'}, as the sections key and val of the tests have it.
InitB == << <<INIT, S("b")>> >>

\* The second section: absent, key with one or with two sub-configurations,
\* or x.
SecondSections ==
    { <<>>,
      << <<<<"key">>, << <<<<"conf">>, InitB>> >>>> >>,
      << <<<<"key">>, << <<<<"conf">>, InitB>>, <<<<"d">>, InitB>> >>>> >>,
      << <<<<"x">>, << <<<<"conf">>, InitB>> >>>> >> }

GlobalTrees ==
    { g \o << <<<<"s">>,
                sg \o << <<<<"c">>,
                           << <<INIT, A7>>, <<PRODUCER, CP>>, <<STEPS, steps>> >>
                           \o ek>> >>>> >> \o second :
        g \in TreeGlobals, sg \in SectionGlobals_s, ek \in ExtraKeys,
        steps \in Seqs(ArgSteps, MaxArgSteps), second \in SecondSections }

InitGlobal ==
    /\ call \in {CallArgs("run", TRUE, "absent"), CallArgs("read", TRUE, "True")}
    /\ cnfg \in GlobalTrees
    /\ dcnfg = <<>>
    /\ seed = <<>>
    /\ h \in {0, 1}
    /\ Start

SpecGlobal == InitGlobal /\ [][Next]_vars

\* read() has resolved the tree: p is what _resolve returned.
Resolved == pc \in {"arrange", "exec", "produce", "done"}

\* The unqualified entries (k -> v) of the tree-level 'global' passed in.
TreeGlobalEntries ==
    IF Has(cnfg, GLOBAL)
    THEN {e \in {Get(cnfg, GLOBAL)[i] : i \in 1..Len(Get(cnfg, GLOBAL))} :
            Len(e[1]) = 1}
    ELSE {}

\* The steps of the sub-configuration sc of the tree being read.
StepsOf(sc) == Get(Get(Get(p, sc[1]), sc[2]), STEPS)

GlobalOf(sc) == Get(Get(Get(p, sc[1]), sc[2]), GLOBAL)

Normalized == merge_default(cnfg, read_dcnfg(call.dcnfgGiven, dcnfg), h).p

\* The keys of all the 'global' maps of the tree t, and the keys of its
\* sub-configurations that are none of the six.
GlobalKeysOf(t) ==
    UNION { IF t[i][1] = GLOBAL THEN KeySet(t[i][2])
            ELSE UNION { IF t[i][2][j][1] = GLOBAL THEN KeySet(t[i][2][j][2])
                         ELSE (KeySet(t[i][2][j][2]) \ {StructKeys[n] : n \in 1..6})
                              \cup (IF Has(t[i][2][j][2], GLOBAL)
                                    THEN KeySet(Get(t[i][2][j][2], GLOBAL))
                                    ELSE {}) :
                         j \in 1..Len(t[i][2]) } :
            i \in 1..Len(t) }

\* The (section id, configuration id) pairs of the tree t.
SubConfsOf(t) ==
    UNION { IF t[i][1] = GLOBAL THEN {}
            ELSE {<<t[i][1], t[i][2][j][1]>> : j \in 1..Len(t[i][2])}
                 \ {<<t[i][1], GLOBAL>>} :
            i \in 1..Len(t) }

\* The step arguments of the normalized tree that None-resolution is to
\* resolve by section name: [sec, sc, t, arg] for the argument arg, named as
\* section sec or sec_id, of step t of sub-configuration sc, whose value is
\* None and for whose name no 'global' holds an entry.
NoneArgs ==
    { a \in [sec : KeySet(Normalized) \ {GLOBAL}, sc : SubConfsOf(Normalized),
             t : 1..MaxArgSteps + 1, arg : {"name", "name_id"}] :
        LET steps == Get(Get(Get(Normalized, a.sc[1]), a.sc[2]), STEPS)
            name == IF a.arg = "name" THEN a.sec ELSE NameWithId(a.sec)
        IN  /\ a.t <= Len(steps)
            /\ StrV(name) \in DKeys(steps[a.t][2])
            /\ steps[a.t][2].v[StrV(name)] = None
            /\ \A g \in GlobalKeysOf(Normalized) :
                 <<g[Len(g)]>> \notin {a.sec, NameWithId(a.sec)} }

ArgName(a) == IF a.arg = "name" THEN a.sec ELSE NameWithId(a.sec)

\* The sub-configurations of section sec of the normalized tree.
ConfsOf(sec) == KeySet(Get(Normalized, sec)) \ {GLOBAL}

\* C5 as stated: with None-resolution on, a step argument named S or S_id
\* whose value is None, S being a section and no global entry given for the
\* name, is resolved to S__c when c is the only sub-configuration of S, and
\* the read fails with the ambiguity error when S has two or more.
C5_AsStated ==
    flag =>
       \A a \in NoneArgs :
          IF Cardinality(ConfsOf(a.sec)) = 1
          THEN Resolved =>
                  StepsOf(a.sc)[a.t][2].v[StrV(ArgName(a))] =
                     StrV(a.sec \o (CHOOSE c \in ConfsOf(a.sec) : TRUE))
          ELSE /\ ~Resolved
               /\ (pc = "resolve" /\ err # "none") => err = ErrAmbiguous

(***************************************************************************)
(* SpecNorm: the sub-configuration s__c with any of its keys left out,     *)
(* against default trees that have s__c, another sub-configuration of s,   *)
(* another section, or nothing                                             *)
(***************************************************************************)
\* The longest list of steps of s__c.
MaxNormSteps == 1

NormStepPool ==
    { <<S("print")>>,
      <<S("set"), Kw1("key", S("b"))>>,
      <<S("set"), Kw2("key", S("b"), "val", IntV(1)), ListV(<<>>)>> }

NormConfs ==
    { i \o pr \o st \o pri :
        i \in {<<>>, << <<INIT, A7>> >>},
        pr \in {<<>>, << <<PRODUCER, CP>> >>},
        st \in {<<>>} \cup {<< <<STEPS, steps>> >> :
                              steps \in Seqs(NormStepPool, MaxNormSteps)},
        pri \in {<<>>, << <<PRIORITY, IntV(2)>> >>} }

\* A default sub-configuration: empty, with steps only, with all six keys.
DefaultConfs ==
    { <<>>,
      << <<STEPS, <<>>>> >>,
      << <<INIT, A7>>, <<PRODUCER, CP>>, <<GLOBAL, <<>>>>, <<PATCH, <<>>>>,
         <<PRIORITY, IntV(1)>>, <<STEPS, <<>>>> >> }

DefaultTrees ==
    {<<>>} \cup
    UNION { { << <<<<"s">>, << <<<<"c">>, d>> >>>> >>,
              << <<<<"s">>, << <<<<"d">>, d>> >>>> >>,
              << <<<<"x">>, << <<<<"conf">>, d>> >>>> >> } : d \in DefaultConfs }

InitNorm ==
    /\ \E conf \in NormConfs : cnfg = << <<<<"s">>, << <<<<"c">>, conf>> >>>> >>
    /\ \E given \in BOOLEAN :
         /\ call \in {CallArgs("run", given, "absent"), CallArgs("read", given, "False")}
         /\ dcnfg \in (IF given THEN DefaultTrees ELSE {<<>>})
    /\ seed = <<>>
    /\ h \in {0, 1}
    /\ Start

SpecNorm == InitNorm /\ [][Next]_vars

\* A sub-configuration, a section and a tree as what dict.__eq__ compares.
ConfMap(conf) ==
    [k \in KeySet(conf) |->
       IF k \in {GLOBAL, PATCH} THEN AsMap(Get(conf, k)) ELSE Get(conf, k)]

SectionMap(sec) ==
    [c \in KeySet(sec) |->
       IF c = GLOBAL THEN AsMap(Get(sec, c)) ELSE ConfMap(Get(sec, c))]

TreeMap(t) ==
    [k \in KeySet(t) |->
       IF k = GLOBAL THEN AsMap(Get(t, k)) ELSE SectionMap(Get(t, k))]

\* C7 as stated: normalizing the result of normalize(t, d) again, with an
\* empty default tree, returns a tree equal to normalize(t, d).
C7_AsStated ==
    pc = "resolve" =>
       /\ merge_default(p, <<>>, h).err = "none"
       /\ TreeMap(merge_default(p, <<>>, h).p) = TreeMap(p)

\* C8 as stated: after a normalization that does not raise, every
\* sub-configuration has the six keys init, producer, patch, steps, global,
\* priority, and every step is a tuple of exactly three elements.
C8_AsStated ==
    pc = "resolve" =>
       \A sc \in SubConfsOf(p) :
          LET conf == Get(Get(p, sc[1]), sc[2])
          IN  /\ \A n \in 1..6 : Has(conf, StructKeys[n])
              /\ \A t \in 1..Len(Get(conf, STEPS)) : Len(Get(conf, STEPS)[t]) = 3

(***************************************************************************)
(* SpecRun: the calls of run() and of read() / exec() with and without a   *)
(* default tree, seed objects and the resolve_none flag, on the empty tree *)
(* and on the trees of the tests with None arguments                       *)
(***************************************************************************)
\* Test 11: the arguments key and val of s__c are None, the sections key
\* and val have one sub-configuration each.
NoneTree(steps) ==
    << <<<<"s">>, << <<<<"c">>, << <<INIT, A7>>, <<PRODUCER, CP>>,
                                    <<STEPS, steps>> >>>> >>>>,
       <<<<"key">>, << <<<<"conf">>, InitB>> >>>>,
       <<<<"val">>, << <<<<"conf">>, << <<INIT, IntV(42)>> >>>> >>>> >>

RunTrees ==
    {<<>>} \cup
    { NoneTree(steps) :
        steps \in { << <<S("set"), Kw2("key", None, "val", None)>> >>,
                    << <<S("set"), Kw2("key", S("b"), "val", None)>>,
                       <<S("print"), Kw1("key", None)>> >>,
                    << <<S("set"), Kw2("key", S("b"), "val", IntV(42))>>,
                       <<S("print")>> >> } }

InitRun ==
    /\ call \in [entry : {"run", "read"}, dcnfgGiven : BOOLEAN,
                 noneArg : {"absent", "True", "False"}]
    /\ cnfg \in RunTrees
    /\ dcnfg = <<>>
    /\ seed \in Seeds
    /\ h \in {0, 1}
    /\ Start

SpecRun == InitRun /\ [][Next]_vars

\* C9: a run with an empty tree and an empty default tree builds nothing and
\* returns the caller's seed objects, the empty store when none are given.
C9_EmptyRun ==
    (/\ cnfg = <<>>
     /\ call.dcnfgGiven
     /\ dcnfg = <<>>
     /\ ~(call.entry = "run" /\ call.noneArg # "absent"))
    => /\ err = "none"
       /\ log = <<>>
       /\ calls = <<>>
       /\ pc = "done" => objects = seed

\* run({}, dcnfg={}, objects={'a__b': 7}) has returned {'a__b': 7}.
C9_Witness ==
    /\ pc = "done"
    /\ call = CallArgs("run", TRUE, "absent")
    /\ cnfg = <<>>
    /\ dcnfg = <<>>
    /\ seed = (<<"a", "b">> :> IntV(7))
    /\ objects = (<<"a", "b">> :> IntV(7))

\* C10 as stated: run() takes the caller's resolve-None flag and hands it to
\* the resolve phase; with the flag set, None step arguments are resolved as
\* by Handler.read(resolve_none=True).
C10_AsStated ==
    (call.entry = "run" /\ call.noneArg = "True")
    => /\ ~(pc = "call" /\ err # "none")
       /\ pc \in {"merge", "resolve", "arrange", "exec", "produce", "done"} => flag
       /\ Resolved =>
            \A sc \in SubConfs : \A t \in 1..Len(StepsOf(sc)) :
               \A k \in DKeys(StepsOf(sc)[t][2]) : StepsOf(sc)[t][2].v[k] # None

(***************************************************************************)
(* SpecAbort: section s with the sub-configurations d (priority 1), c and  *)
(* e (priority 2), each of which may fail to build                         *)
(***************************************************************************)
\* Lists of steps: none, one that works, one whose method raises KeyError,
\* an unknown method, '__init__' not first, kwargs that are no dict.
AbortSteps ==
    { <<>>,
      << <<S("set"), Kw1("key", S("b"))>> >>,
      << <<S("print"), Kw1("key", S("b"))>> >>,
      << <<S("nosuch")>> >>,
      << <<S("set"), Kw1("key", S("b"))>>, <<S("__init__")>> >>,
      << <<S("set"), IntV(1)>> >> }

AbortConfs(n) ==
    { << <<INIT, A7>>, <<PRODUCER, pr>>, <<STEPS, steps>>, <<PRIORITY, IntV(n)>> >> :
        pr \in {CP, S("x")}, steps \in AbortSteps }

AbortTrees ==
    { << <<<<"s">>, << <<<<"c">>, x>>, <<<<"d">>, y>>, <<<<"e">>, z>> >>>> >> :
        x \in AbortConfs(2), y \in AbortConfs(1), z \in AbortConfs(2) }

InitAbort ==
    /\ call \in PlainCalls
    /\ cnfg \in AbortTrees
    /\ dcnfg = <<>>
    /\ seed \in {<<>>, (<<"s", "c">> :> IntV(7))}
    /\ h \in {0, 1}
    /\ Start

SpecAbort == InitAbort /\ [][Next]_vars

\* configs[i] cannot be built: its producer is no class, or '__init__' is
\* not its first step, or a step names a method its producer has not, or a
\* step's method raises (print of a key the object has not).
Unbuildable(i) ==
    LET conf == configs[i].val
        steps == Get(conf, STEPS)
    IN  \/ Get(conf, PRODUCER).t # "class"
        \/ \E t \in 2..Len(steps) : steps[t][1] = INITSTEP
        \/ \E t \in 1..Len(steps) :
              \/ steps[t][1].v \notin DOMAIN ClassMethods(Get(conf, PRODUCER).v)
              \/ steps[t][1] = S("print")

\* The entries a run has after building configs[1..n]: the seed's, and under
\* each composite id the object the sub-configuration declares.
StoreAfter(n) ==
    [k \in DOMAIN seed \cup {configs[i].name : i \in 1..n} |->
        IF \E i \in 1..n : configs[i].name = k
        THEN Declared(configs[CHOOSE i \in 1..n : configs[i].name = k].val, seed)
        ELSE seed[k]]

\* C12: when building the k-th scheduled sub-configuration fails the run
\* stops there with the exception: no later sub-configuration is started,
\* nothing is stored for the k-th, and the store holds the seed entries and
\* the results of sub-configurations 1..k-1.
C12_AbortAtFailure ==
    pc \in {"exec", "produce", "done"} =>
       /\ \A i \in 1..Len(configs) : Unbuildable(i) =>
             /\ idx <= i
             /\ pc # "done"
             /\ \A m \in 1..Len(log) :
                   log[m].i < i \/ (log[m].i = i /\ log[m].ev = "construct")
       /\ err # "none" =>
             /\ \A m \in 1..Len(log) :
                   log[m].i < idx \/ (log[m].i = idx /\ log[m].ev = "construct")
             /\ \A m \in 1..Len(calls) :
                   \E i \in 1..idx : calls[m].oid = configs[i].name
             /\ objects = StoreAfter(idx - 1)

\* The second of three sub-configurations failed in its step after the
\* first was built: the store has the seed's s__c and the result s__d.
C12_Witness ==
    /\ pc = "produce"
    /\ err = "KeyError"
    /\ idx = 2
    /\ Len(configs) = 3
    /\ ~Unbuildable(3)
    /\ seed = (<<"s", "c">> :> IntV(7))
    /\ objects = (<<"s", "c">> :> IntV(7))
                 @@ (<<"s", "d">> :> DictV((S("a") :> IntV(7)) @@ (S("b") :> IntV(42))))

(***************************************************************************)
(* SpecRef: s__c (priority 1) and s__d (priority 2), whose steps take      *)
(* strings, lists and other values under the arguments param, param_id and *)
(* val; s__c and the seed's a__b are keys of the store when s__d is built  *)
(***************************************************************************)
\* The longest list of steps of s__d.
MaxRefSteps == 2

SC == StrV(<<"s", "c">>)

\* Values of a step argument: a key of the store, a str that is none, a
\* prefix of a key, an int, None, and lists of them.
RefValues ==
    { SC, S("zz"), S("s"), IntV(1), None,
      ListV(<<SC, S("zz")>>), ListV(<<IntV(1), StrV(<<"a", "b">>), SC>>),
      ListV(<<>>) }

RefSteps ==
    { <<S("func_1"), Kw1("param", x)>> : x \in RefValues }
    \cup { <<S("func_2"), Kw1("param_id", x)>> :
             x \in {SC, S("zz"), ListV(<<SC, S("zz")>>)} }
    \cup { <<S("set"), Kw2("key", S("b"), "val", StrV(<<"a", "b">>))>> }

RefPatch == << <<<<"func_1">>, FuncV("func_1")>>, <<<<"func_2">>, FuncV("func_2")>> >>

RefTrees ==
    { << <<<<"s">>,
           << <<<<"c">>, << <<INIT, init>>, <<PRIORITY, IntV(1)>> >>>>,
              <<<<"d">>, << <<INIT, ClassV("dict")>>, <<PRODUCER, CP>>,
                            <<PATCH, RefPatch>>, <<PRIORITY, IntV(2)>>,
                            <<STEPS, steps>> >>>> >>>> >> :
        init \in {A7, IntV(5)}, steps \in Seqs(RefSteps, MaxRefSteps) }

InitRef ==
    /\ call \in PlainCalls
    /\ cnfg \in RefTrees
    /\ dcnfg = <<>>
    /\ seed \in Seeds
    /\ h \in {0, 1}
    /\ Start

SpecRef == InitRef /\ [][Next]_vars

\* What the claim has a step receive for the declared value x of an
\* argument named k, with the entries store.
Substituted(k, x, store) ==
    IF EndsWithId(k) THEN x
    ELSE IF x.t = "str" THEN (IF x.v \in DOMAIN store THEN store[x.v] ELSE x)
    ELSE IF x.t = "list"
         THEN ListV([i \in 1..Len(x.v) |->
                       IF x.v[i].t = "str" /\ x.v[i].v \in DOMAIN store
                       THEN store[x.v[i].v] ELSE x.v[i]])
    ELSE x

\* C13: before each step, an argument whose name does not end in '_id' and
\* whose value is a str that is a key of the objects store is replaced by
\* the stored object, a list value elementwise; other strings and values are
\* passed as they are, and so is every argument whose name ends in '_id'.
C13_Substitution ==
    [][\A m \in (Len(calls) + 1)..Len(calls') :
          LET step == Get(configs[idx].val, STEPS)[m - Len(calls)]
          IN  /\ calls'[m].method = step[1].v
              /\ DKeys(calls'[m].kwargs) = DKeys(step[2])
              /\ \A k \in DKeys(step[2]) :
                    calls'[m].kwargs.v[k] = Substituted(k.v, step[2].v[k], objects)]_vars

\* s__d was built from func_1(param=[1, 'a__b', 's__c']) and
\* func_2(param_id='s__c'): the first got [1, 7, {'a': 7}], the second the
\* string.
C13_Witness ==
    /\ pc = "done"
    /\ seed = (<<"a", "b">> :> IntV(7))
    /\ Len(calls) = 2
    /\ calls[1].kwargs = Kw1("param", ListV(<<IntV(1), IntV(7), A7>>))
    /\ calls[2].kwargs = Kw1("param_id", SC)
    /\ objects[<<"s", "d">>] =
         DictV((S("param") :> ListV(<<IntV(1), IntV(7), A7>>))
               @@ (S("param_id") :> SC))

(***************************************************************************)
(* SpecOrder: three sub-configurations with priorities 0..MaxPriority,     *)
(* declared in every order, in one section or in two                       *)
(***************************************************************************)
OrderConf(n) == << <<INIT, IntV(n)>>, <<PRIORITY, IntV(n)>> >>

\* The permutations of a three-element sequence.
Perms3(q) ==
    { [i \in 1..3 |-> q[f[i]]] : f \in {g \in [1..3 -> 1..3] : {g[1], g[2], g[3]} = 1..3} }

OrderTrees ==
    UNION { { << <<<<"s">>, q>> >> :
                q \in Perms3(<< <<<<"c">>, OrderConf(x)>>, <<<<"d">>, OrderConf(y)>>,
                                <<<<"e">>, OrderConf(z)>> >>) }
            \cup { << <<<<"s">>, << <<<<"d">>, OrderConf(y)>>, <<<<"c">>, OrderConf(x)>> >>>>,
                      <<<<"a">>, << <<<<"e">>, OrderConf(z)>> >>>> >>,
                   << <<<<"a">>, << <<<<"e">>, OrderConf(z)>> >>>>,
                      <<<<"s">>, << <<<<"c">>, OrderConf(x)>>, <<<<"d">>, OrderConf(y)>> >>>> >> } :
            x \in 0..MaxPriority, y \in 0..MaxPriority, z \in 0..MaxPriority }

InitOrder ==
    /\ call \in PlainCalls
    /\ cnfg \in OrderTrees
    /\ dcnfg = <<>>
    /\ seed = <<>>
    /\ h \in {0, 1}
    /\ Start

SpecOrder == InitOrder /\ [][Next]_vars

SetB42 == <<S("set"), Kw2("key", S("b"), "val", IntV(42)), ListV(<<>>)>>

\* A complete default sub-configuration, as CNFG's are, told by its init.
FullConf(n) ==
    << <<INIT, Kw1("a", IntV(n))>>, <<PRODUCER, CP>>, <<GLOBAL, <<>>>>,
       <<PATCH, <<>>>>, <<PRIORITY, IntV(1)>>, <<STEPS, <<SetB42>>>> >>

\* The working sub-configuration s__c: empty, with init, with init and steps.
MergeConfs ==
    { <<>>,
      << <<INIT, Kw1("a", IntV(5))>> >>,
      << <<INIT, Kw1("a", IntV(5))>>, <<STEPS, <<SetB42>>>> >> }

\* The working tree: a tree-level 'global' or none, a 'global' of section s
\* or none.
MergeTrees ==
    { g \o << <<<<"s">>, sg \o << <<<<"c">>, conf>> >> >> >> :
        g \in {<<>>, << <<GLOBAL, << <<<<"val">>, IntV(1)>> >>>> >>},
        sg \in {<<>>, << <<GLOBAL, << <<<<"key">>, S("e")>> >>>> >>},
        conf \in MergeConfs }

\* The 'global' of the default section s, as test 14 has it.
DefaultSectionGlobal == <<GLOBAL, << <<<<"key">>, S("d")>>, <<<<"val">>, IntV(3)>> >>>>

\* The default section s: sub-configuration c, d, or d and c, with no
\* 'global', with 'global' as its first key, or as its last.
DefaultSections ==
    { pre \o confs \o post :
        confs \in { << <<<<"c">>, FullConf(1)>> >>,
                    << <<<<"d">>, FullConf(2)>> >>,
                    << <<<<"d">>, FullConf(2)>>, <<<<"c">>, FullConf(1)>> >> },
        pre \in {<<>>, <<DefaultSectionGlobal>>},
        post \in {<<>>, <<DefaultSectionGlobal>>} } \
    { x \in Seqs({DefaultSectionGlobal, <<<<"c">>, FullConf(1)>>,
                  <<<<"d">>, FullConf(2)>>}, 4) :
        Len(x) >= 2 /\ x[1] = DefaultSectionGlobal /\ x[Len(x)] = DefaultSectionGlobal }

MergeDefaults ==
    { g \o << <<<<"s">>, sec>> >> :
        g \in {<<>>, << <<GLOBAL, << <<<<"val">>, IntV(2)>>, <<<<"key">>, S("x")>> >>>> >>},
        sec \in DefaultSections }

InitMerge ==
    /\ call \in PlainCalls
    /\ cnfg \in MergeTrees
    /\ dcnfg \in MergeDefaults
    /\ seed = <<>>
    /\ h \in {0, 1}
    /\ Start

SpecMerge == InitMerge /\ [][Next]_vars

\* The sub-configurations of a section, in insertion order.
SubConfigsIn(sec) == SelectSeq(sec, LAMBDA kv : kv[1] # GLOBAL)

\* The default sub-configuration the claim has s__c merged from: the one
\* named c, or the first sub-configuration of the default section.
MergeSource ==
    IF Has(Get(dcnfg, <<"s">>), <<"c">>) THEN Get(Get(dcnfg, <<"s">>), <<"c">>)
    ELSE SubConfigsIn(Get(dcnfg, <<"s">>))[1][2]

\* C15 as stated: for the section s of both trees, normalization gives s__c
\* a copy of every structural key it lacks from the default sub-configuration
\* c, or from the first sub-configuration of the default section when that
\* has no c; the keys s__c has are unchanged; the section-level 'global' is
\* neither the source nor the target of this merge.
C15_AsStated ==
    /\ ~(pc = "merge" /\ err # "none")
    /\ pc = "resolve" =>
         LET given == Get(Get(cnfg, <<"s">>), <<"c">>)
             conf == Get(Get(p, <<"s">>), <<"c">>)
             sg == Get(Get(p, <<"s">>), GLOBAL)
         IN  /\ KeySet(conf) = {StructKeys[n] : n \in 1..6}
             /\ \A k \in KeySet(conf) :
                   Get(conf, k) = IF Has(given, k) THEN Get(given, k)
                                  ELSE Get(MergeSource, k)
             /\ \A n \in 1..6 : ~Has(sg, StructKeys[n])

(***************************************************************************)
(* SpecLevels: section s with the sub-configurations c and d, and entries  *)
(* for the step argument key in the 'global' maps of the three levels:     *)
(* unqualified, path-targeted (s__key, c__key) and step-qualified          *)
(* (set__key)                                                              *)
(***************************************************************************)
LevelSteps ==
    << <<S("set"), Kw2("key", S("z"), "val", IntV(42)), ListV(<<>>)>>,
       <<S("print"), Kw1("key", S("a")), ListV(<<>>)>> >>

\* A 'global' map with none, one or both of two entries, in both orders.
GlobalMaps(e1, e2) ==
    { <<>>, << <<GLOBAL, <<e1>>>> >>, << <<GLOBAL, <<e2>>>> >>,
      << <<GLOBAL, <<e1, e2>>>> >>, << <<GLOBAL, <<e2, e1>>>> >> }

LevelTrees ==
    { tg \o << <<<<"s">>,
                 sg \o << <<<<"c">>, << <<INIT, A7>>, <<PRODUCER, CP>>,
                                        <<STEPS, LevelSteps>> >> \o cg>>,
                          <<<<"d">>, << <<INIT, A7>>, <<PRODUCER, CP>>,
                                        <<STEPS, LevelSteps>> >>>> >>>> >> :
        tg \in GlobalMaps(<<<<"key">>, S("b")>>, <<<<"s", "key">>, S("x")>>),
        sg \in GlobalMaps(<<<<"key">>, S("e")>>, <<<<"c", "key">>, S("y")>>),
        cg \in GlobalMaps(<<<<"key">>, S("a")>>, <<<<"set", "key">>, S("zz")>>) }

InitLevels ==
    /\ call \in PlainCalls
    /\ cnfg \in LevelTrees
    /\ dcnfg = <<>>
    /\ seed = <<>>
    /\ h \in {0, 1}
    /\ Start

SpecLevels == InitLevels /\ [][Next]_vars

\* The 'global' map the caller gave at the tree level, for section s and for
\* s__c ({} when none).
GivenGlobal(level) ==
    LET t == CASE level = "tree" -> cnfg
               [] level = "section" -> Get(cnfg, <<"s">>)
               [] OTHER -> Get(Get(cnfg, <<"s">>), <<"c">>)
    IN  IF Has(t, GLOBAL) THEN Get(t, GLOBAL) ELSE <<>>

\* The value of argument key of step n of s__c after resolution.
KeyArg(n) == StepsOf(<<<<"s">>, <<"c">>>>)[n][2].v[S("key")]

\* C16 as stated: of two global entries that apply to the same step
\* argument the more specific one is applied: a path-targeted entry wins
\* over a broadcast entry of the same level, and a step-qualified entry wins
\* over the unqualified one of the same sub-configuration, in whatever order
\* the entries are iterated.
C16_AsStated ==
    Resolved =>
       /\ (Has(GivenGlobal("tree"), <<"s", "key">>) /\ Has(GivenGlobal("tree"), <<"key">>))
          => KeyArg(2) = Get(GivenGlobal("tree"), <<"s", "key">>)
       /\ (/\ GivenGlobal("tree") = <<>>
           /\ Has(GivenGlobal("section"), <<"c", "key">>)
           /\ Has(GivenGlobal("section"), <<"key">>))
          => KeyArg(2) = Get(GivenGlobal("section"), <<"c", "key">>)
       /\ (Has(GlobalOf(<<<<"s">>, <<"c">>>>), <<"set", "key">>)
           /\ Has(GlobalOf(<<<<"s">>, <<"c">>>>), <<"key">>))
          => KeyArg(1) = Get(GlobalOf(<<<<"s">>, <<"c">>>>), <<"set", "key">>)

\* The caller's 'global' of a level has an entry under the unqualified key.
GivenKey(level) == Has(GivenGlobal(level), <<"key">>)

OnlyUnqualified ==
    \A level \in {"tree", "section", "conf"} : KeySet(GivenGlobal(level)) \subseteq {<<"key">>}

GlobalIn(t) == IF Has(t, GLOBAL) THEN Get(t, GLOBAL) ELSE <<>>

\* The default map d overlaid by the working map w.
Overlaid(d, w) == AsMap(Update(d, w))

\* C18 as stated: after normalization the tree-level 'global' is the default
\* tree's overlaid by the working tree's, the 'global' of a section of both
\* trees is the default section's overlaid by the working section's, and so
\* an entry that only the default tree defines is applied to the step
\* arguments of its name.
C18_AsStated ==
    LET tg == Overlaid(GlobalIn(dcnfg), GlobalIn(cnfg))
        sg == Overlaid(GlobalIn(Get(dcnfg, <<"s">>)), GlobalIn(Get(cnfg, <<"s">>)))
    IN  /\ pc = "resolve" =>
             /\ AsMap(Get(p, GLOBAL)) = tg
             /\ AsMap(Get(Get(p, <<"s">>), GLOBAL)) = sg
        /\ Resolved =>
             \A k \in {<<"key">>, <<"val">>} :
                LET arg == StepsOf(<<<<"s">>, <<"c">>>>)[1][2].v[StrV(k)]
                IN  /\ k \in DOMAIN tg => arg = tg[k]
                    /\ (k \notin DOMAIN tg /\ k \in DOMAIN sg) => arg = sg[k]

(***************************************************************************)
(* SpecFalsy: s__c with one step set(key=.., val=..) whose arguments are   *)
(* None, falsy values that are not None ('', 0, []) or plain values, with  *)
(* and without sections named key and val and a tree-level 'global'        *)
(***************************************************************************)
FalsySteps ==
    { << <<S("set"), Kw2("key", kv, "val", vv)>> >> :
        kv \in {None, StrV(<<>>), S("b")},
        vv \in {None, IntV(0), IntV(42), ListV(<<>>)} }

FalsyTrees ==
    { g \o << <<<<"s">>, << <<<<"c">>, << <<INIT, A7>>, <<PRODUCER, CP>>,
                                          <<STEPS, steps>> >>>> >>>> >> \o second :
        g \in { <<>>, << <<GLOBAL, << <<<<"val">>, IntV(5)>> >>>> >>,
                << <<GLOBAL, << <<<<"x">>, IntV(5)>> >>>> >> },
        steps \in FalsySteps,
        second \in { <<>>,
                     << <<<<"key">>, << <<<<"conf">>, InitB>> >>>> >>,
                     << <<<<"key">>, << <<<<"conf">>, InitB>> >>>>,
                        <<<<"val">>, << <<<<"conf">>, << <<INIT, IntV(42)>> >>>> >>>> >> } }

InitFalsy ==
    /\ call \in {CallArgs("read", TRUE, "True"), CallArgs("read", TRUE, "False"),
                 CallArgs("run", TRUE, "absent")}
    /\ cnfg \in FalsyTrees
    /\ dcnfg = <<>>
    /\ seed = <<>>
    /\ h \in {0, 1}
    /\ Start

SpecFalsy == InitFalsy /\ [][Next]_vars

\* The arguments of the step of s__c after the application of the globals,
\* before None-resolution: what read() gives them without the flag.
AfterGlobals ==
    Get(Get(Get(resolve(Normalized, FALSE, h).p, <<"s">>), <<"c">>), STEPS)[1][2]

\* C19 as stated: with None-resolution on, a step argument that is not None
\* after the application of the globals (0, '' and [] included) is left as
\* it is by the None resolver, and a None argument for whose name there is
\* neither a global entry nor a section remains None.
C19_AsStated ==
    (flag /\ Resolved) =>
       \A k \in {<<"key">>, <<"val">>} :
          LET before == AfterGlobals.v[StrV(k)]
              after == StepsOf(<<<<"s">>, <<"c">>>>)[1][2].v[StrV(k)]
          IN  /\ before # None => after = before
              /\ (/\ before = None
                  /\ ~Has(cnfg, k)
                  /\ \A g \in GlobalKeysOf(Normalized) : <<g[Len(g)]>> # k)
                 => after = None

(***************************************************************************)
(* SpecOverride: s__c with one step whose arguments key, key_id or both    *)
(* are None, a section key with one or two sub-configurations, and a       *)
(* 'global' at the tree, at section s and at s__c that is absent or has an *)
(* entry key or key_id                                                     *)
(***************************************************************************)
OverrideSteps ==
    { << <<S("set"), Kw1("key", None)>> >>,
      << <<S("set"), Kw1("key_id", None)>> >>,
      << <<S("set"), Kw2("key", None, "key_id", None)>> >> }

\* A 'global' of one level: absent, {'key': 'key__d'} or
\* {'key_id': 'key__conf'}.
OverrideMaps ==
    { <<>>,
      << <<GLOBAL, << <<<<"key">>, StrV(<<"key", "d">>)>> >>>> >>,
      << <<GLOBAL, << <<<<"key_id">>, StrV(<<"key", "conf">>)>> >>>> >> }

OverrideTrees ==
    { g \o << <<<<"s">>,
                sg \o << <<<<"c">>,
                           << <<INIT, A7>>, <<PRODUCER, CP>>, <<STEPS, steps>> >>
                           \o cg>> >>>> >> \o second :
        g \in OverrideMaps, sg \in OverrideMaps, cg \in OverrideMaps,
        steps \in OverrideSteps,
        second \in { << <<<<"key">>, << <<<<"conf">>, InitB>> >>>> >>,
                     << <<<<"key">>, << <<<<"conf">>, InitB>>,
                                        <<<<"d">>, InitB>> >>>> >> } }

InitOverride ==
    /\ call \in {CallArgs("read", TRUE, "True"), CallArgs("read", TRUE, "False"),
                 CallArgs("run", TRUE, "absent")}
    /\ cnfg \in OverrideTrees
    /\ dcnfg = <<>>
    /\ seed = <<>>
    /\ h \in {0, 1}
    /\ Start

SpecOverride == InitOverride /\ [][Next]_vars

\* The values of the entries key and key_id of the 'global' maps passed in
\* at the three levels.
OverrideValues ==
    LET sec == Get(cnfg, <<"s">>)
        conf == Get(sec, <<"c">>)
        maps == (IF Has(cnfg, GLOBAL) THEN {Get(cnfg, GLOBAL)} ELSE {})
                \cup (IF Has(sec, GLOBAL) THEN {Get(sec, GLOBAL)} ELSE {})
                \cup (IF Has(conf, GLOBAL) THEN {Get(conf, GLOBAL)} ELSE {})
    IN  { m[1][2] : m \in maps }

\* C20 as stated: with None-resolution on and a global entry named key or
\* key_id given for s__c at the tree, the section or the sub-configuration,
\* the read does not fail, whether section key has one sub-configuration or
\* two, and every None argument key or key_id of the step of s__c has the
\* value of such an entry.
C20_AsStated ==
    (flag /\ OverrideValues # {}) =>
       /\ ~(pc = "resolve" /\ err # "none")
       /\ Resolved =>
            \A k \in DKeys(StepsOf(<<<<"s">>, <<"c">>>>)[1][2]) :
               StepsOf(<<<<"s">>, <<"c">>>>)[1][2].v[k] \in OverrideValues

(***************************************************************************)
(* SpecRoute: sections s (sub-configurations c and d) and x (c), with      *)
(* fully qualified, partly qualified and unqualified entries in the        *)
(* 'global' of the tree and of section s                                   *)
(***************************************************************************)
\* The maps with at most two of the given entries, in every order.
MapsOf(entries) ==
    { <<>> } \cup
    { << <<GLOBAL, m>> >> :
        m \in { <<e>> : e \in entries } \cup
              { q \in { <<e1, e2>> : e1 \in entries, e2 \in entries } : q[1] # q[2] } }

RouteConf == << <<INIT, A7>>, <<PRODUCER, CP>>, <<STEPS, LevelSteps>> >>

RouteTrees ==
    { tg \o << <<<<"s">>, sg \o << <<<<"c">>, RouteConf>>, <<<<"d">>, RouteConf>> >>>>,
               <<<<"x">>, << <<<<"c">>, RouteConf>> >>>> >> :
        tg \in MapsOf({ <<<<"s", "c", "set", "key">>, S("q")>>,
                        <<<<"c", "print", "key">>, S("a")>>,
                        <<<<"key">>, S("b")>> }),
        sg \in MapsOf({ <<<<"c", "key">>, S("y")>>, <<<<"set", "key">>, S("w")>> }) }

InitRoute ==
    /\ call \in PlainCalls
    /\ cnfg \in RouteTrees
    /\ dcnfg = <<>>
    /\ seed = <<>>
    /\ h \in {0, 1}
    /\ Start

SpecRoute == InitRoute /\ [][Next]_vars

\* Where an entry named n of a level's 'global' goes, the level having the
\* children kids: to the child its first segment names, stripped of that
\* segment, or as it is to every child.
RoutesOf(n, kids) ==
    IF <<Head(n)>> \in kids THEN { [child |-> <<Head(n)>>, name |-> Tail(n)] }
    ELSE { [child |-> c, name |-> n] : c \in kids }

\* The (key, value) pairs of the map d.
ItemsOf(d) == { d[i] : i \in 1..Len(d) }

\* The entries [name, val] that the children kids of a level receive from
\* the entries given: [child, name, val].
Distributed(given, kids) ==
    UNION { { [child |-> r.child, name |-> r.name, val |-> e.val] :
                r \in RoutesOf(e.name, kids) } : e \in given }

\* The entries [name, val] that section sec holds once the tree-level
\* 'global' of the normalized tree is distributed: its own and those routed
\* to it.
SectionEntries(sec) ==
    { [name |-> e[1], val |-> e[2]] : e \in ItemsOf(GlobalIn(Get(Normalized, sec))) }
    \cup { [name |-> x.name, val |-> x.val] :
             x \in { y \in Distributed({ [name |-> e[1], val |-> e[2]] :
                                           e \in ItemsOf(GlobalIn(Normalized)) },
                                       KeySet(Normalized) \ {GLOBAL}) :
                       y.child = sec } }

\* The entries [name, val] that the sub-configuration sc holds once the
\* entries of its section are distributed: its own and those routed to it.
ConfEntries(sc) ==
    { [name |-> e[1], val |-> e[2]] :
        e \in ItemsOf(GlobalIn(Get(Get(Normalized, sc[1]), sc[2]))) }
    \cup { [name |-> x.name, val |-> x.val] :
             x \in { y \in Distributed(SectionEntries(sc[1]),
                                       KeySet(Get(Normalized, sc[1])) \ {GLOBAL}) :
                       y.child = sc[2] } }

\* The fully qualified entries s__c__m__k of the tree-level 'global' given.
Qualified == { e \in ItemsOf(GlobalIn(cnfg)) : Len(e[1]) = 4 }

\* The resolved tree of the call without the tree-level entry named n.
ResolvedWithout(n) ==
    resolve(Put(Normalized, GLOBAL, Del(Get(Normalized, GLOBAL), n)), flag, h).p

\* No step argument of p differs from that of the tree q but the argument
\* n[4] of the steps named n[3] of the sub-configuration n[2] of section n[1].
FrameOf(n, q) ==
    \A sc \in SubConfsOf(p) :
       IF sc # <<<<n[1]>>, <<n[2]>>>>
       THEN StepsOf(sc) = Get(Get(Get(q, sc[1]), sc[2]), STEPS)
       ELSE \A t \in 1..Len(StepsOf(sc)) :
               LET was == Get(Get(Get(q, sc[1]), sc[2]), STEPS)[t]
                   now == StepsOf(sc)[t]
               IN  /\ now[1] = was[1]
                   /\ now[3] = was[3]
                   /\ DKeys(now[2]) = DKeys(was[2])
                   /\ \A k \in DKeys(now[2]) :
                        (now[1].v # <<n[3]>> \/ k.v # <<n[4]>>)
                           => now[2].v[k] = was[2].v[k]

\* C21: after a resolution, the tree and its sections own no 'global' map;
\* the 'global' of every sub-configuration holds exactly the names that
\* reach it when each entry of a level is routed, first segment stripped,
\* to the one child that segment names, or else copied as it is to every
\* child, each with the value of such an entry; and a tree-level entry
\* s__c__m__k changes no step argument but k of the steps named m of s__c.
C21_Distribution ==
    Resolved =>
       /\ ~Has(p, GLOBAL)
       /\ \A sec \in KeySet(p) : ~Has(Get(p, sec), GLOBAL)
       /\ \A sc \in SubConfsOf(p) :
             /\ KeySet(GlobalOf(sc)) = { x.name : x \in ConfEntries(sc) }
             /\ \A g \in ItemsOf(GlobalOf(sc)) :
                  [name |-> g[1], val |-> g[2]] \in ConfEntries(sc)
       /\ \A e \in Qualified : FrameOf(e[1], ResolvedWithout(e[1]))

\* The tree-level entry s__c__set__key -> 'q' reached the set step of s__c
\* alone: s__c was built with the key 'q', s__d and x__c with the key 'z' of
\* the step.
C21_Witness ==
    /\ pc = "done"
    /\ GlobalIn(cnfg) = << <<<<"s", "c", "set", "key">>, S("q")>> >>
    /\ GlobalIn(Get(cnfg, <<"s">>)) = <<>>
    /\ objects[<<"s", "c">>] = DictV((S("a") :> IntV(7)) @@ (S("q") :> IntV(42)))
    /\ objects[<<"s", "d">>] = DictV((S("a") :> IntV(7)) @@ (S("z") :> IntV(42)))
    /\ objects[<<"x", "c">>] = DictV((S("a") :> IntV(7)) @@ (S("z") :> IntV(42)))

(***************************************************************************)
(* SpecAbsorb: s__c with keys that are none of the six written directly on *)
(* it (key, val, set__key), with and without a 'global' of its own and of  *)
(* section s                                                               *)
(***************************************************************************)
\* The keys written directly on s__c: at most two of three, in every order.
DirectKeys ==
    { IF Len(m) = 0 THEN <<>> ELSE m[1][2] :
        m \in MapsOf({ <<<<"key">>, S("f")>>, <<<<"val">>, IntV(5)>>,
                       <<<<"set", "key">>, S("w")>> }) }

AbsorbTrees ==
    { << <<<<"s">>,
           sg \o << <<<<"c">>, << <<INIT, A7>>, <<PRODUCER, CP>> >> \o d1
                                  \o << <<STEPS, LevelSteps>> >> \o cg \o d2>>,
                    <<<<"d">>, RouteConf>> >>>> >> :
        sg \in { <<>>, << <<GLOBAL, << <<<<"key">>, S("e")>> >>>> >> },
        cg \in { <<>>, << <<GLOBAL, << <<<<"key">>, S("b")>> >>>> >>,
                 << <<GLOBAL, << <<<<"val">>, IntV(9)>>, <<<<"key">>, S("b")>> >>>> >> },
        d1 \in { d \in DirectKeys : Len(d) <= 1 },
        d2 \in { d \in DirectKeys : Len(d) <= 1 } }

InitAbsorb ==
    /\ call \in PlainCalls \cup {CallArgs("read", TRUE, "True")}
    /\ cnfg \in { t \in AbsorbTrees :
                    LET ks == Keys(Get(Get(t, <<"s">>), <<"c">>))
                    IN  \A i, j \in 1..Len(ks) : ks[i] = ks[j] => i = j }
    /\ dcnfg = <<>>
    /\ seed = <<>>
    /\ h \in {0, 1}
    /\ Start

SpecAbsorb == InitAbsorb /\ [][Next]_vars

\* The (key, value) pairs written directly on s__c that are none of the six
\* structural keys, in the order written.
Direct == SelectSeq(Get(Get(cnfg, <<"s">>), <<"c">>), LAMBDA e : ~IsStructKey(e[1]))

\* The normalized tree with the directly written keys of s__c written into
\* the 'global' of s__c instead.
WrittenInGlobal ==
    LET sec == Get(Normalized, <<"s">>)
        conf == Get(sec, <<"c">>)
        moved == Put(SelectSeq(conf, LAMBDA e : IsStructKey(e[1])), GLOBAL,
                     Update(Get(conf, GLOBAL), Direct))
    IN  Put(Normalized, <<"s">>, Put(sec, <<"c">>, moved))

\* The sub-configuration c of section s.
ConfSC == <<<<"s">>, <<"c">>>>

\* C22: after resolution a sub-configuration has no key but the six; every
\* other key k that was written directly on it is in its 'global', with the
\* value written (also when that 'global' had an entry k) unless the section
\* gave an entry k; steps get it as from an entry of the 'global' of the
\* sub-configuration: the resolved tree is that of the tree with k written
\* in that 'global', and without an entry of the section or a
\* step-qualified one for the argument, the arguments named k have the
\* value written.
C22_Absorbed ==
    Resolved =>
       /\ \A sc \in SubConfsOf(p) :
             \A k \in KeySet(Get(Get(p, sc[1]), sc[2])) : IsStructKey(k)
       /\ \A i \in 1..Len(Direct) :
             /\ Has(GlobalOf(ConfSC), Direct[i][1])
             /\ ~Has(GivenGlobal("section"), Direct[i][1])
                => Get(GlobalOf(ConfSC), Direct[i][1]) = Direct[i][2]
             /\ \A t \in 1..Len(StepsOf(ConfSC)) :
                  (/\ StrV(Direct[i][1]) \in DKeys(StepsOf(ConfSC)[t][2])
                   /\ ~Has(GivenGlobal("section"), Direct[i][1])
                   /\ ~Has(GlobalOf(ConfSC), StepsOf(ConfSC)[t][1].v \o Direct[i][1]))
                  => StepsOf(ConfSC)[t][2].v[StrV(Direct[i][1])] = Direct[i][2]
       /\ p = resolve(WrittenInGlobal, flag, h).p

\* s__c was given key = 'f' directly and {'key': 'b'} as its 'global': its
\* steps ran as set(key='f', val=42) and the object was built with key 'f'.
C22_Witness ==
    /\ pc = "done"
    /\ Direct = << <<<<"key">>, S("f")>> >>
    /\ GivenGlobal("conf") = << <<<<"key">>, S("b")>> >>
    /\ GivenGlobal("section") = <<>>
    /\ \E m \in 1..Len(calls) :
         /\ calls[m].oid = <<"s", "c">>
         /\ calls[m].method = <<"set">>
         /\ calls[m].kwargs = Kw2("key", S("f"), "val", IntV(42))
    /\ objects[<<"s", "c">>] = DictV((S("a") :> IntV(7)) @@ (S("f") :> IntV(42)))

(***************************************************************************)
(* SpecInit: s__c with '__init__' steps that lead, follow other steps or   *)
(* occur twice, with and without decorators                                *)
(***************************************************************************)
Dec1 == FuncV("decorator")

Dec2 == FuncV("decorator_2")

\* Lists of decorators: none, one, two in both orders, the same twice (as
\* the tests have it).
DecorLists ==
    { ListV(<<>>), ListV(<<Dec1>>), ListV(<<Dec1, Dec2>>), ListV(<<Dec2, Dec1>>),
      ListV(<<Dec1, Dec1>>) }

\* An '__init__' step with the constructor's param, with none, and with an
\* oid (which CustomProducer.__init__ requires when it is called as a step).
InitStepsPool ==
    { <<INITSTEP, Kw1("param", IntV(5))>>,
      <<INITSTEP, EmptyDictV>>,
      <<INITSTEP, Kw1("oid", S("x"))>> }

SetB == <<S("set"), Kw1("key", S("b"))>>

InitStepLists ==
    { <<>>, <<SetB>> }
    \cup { <<i>> : i \in InitStepsPool }
    \cup { <<i, SetB>> : i \in InitStepsPool }
    \cup { <<SetB, i>> : i \in InitStepsPool }
    \cup { <<i, j>> : i \in InitStepsPool, j \in InitStepsPool }
    \cup { <<i, SetB, j>> : i \in InitStepsPool, j \in InitStepsPool }
    \cup { <<i, j, <<S("set"), Kw1("key", S("a"))>> >> :
             i \in InitStepsPool, j \in InitStepsPool }

\* The steps with the decorators d on the first step and e on the last.
Decorated(steps, d, e) ==
    [t \in 1..Len(steps) |->
       IF t = 1 /\ d # ListV(<<>>) THEN <<steps[t][1], steps[t][2], d>>
       ELSE IF t = Len(steps) /\ e # ListV(<<>>) THEN <<steps[t][1], steps[t][2], e>>
       ELSE steps[t]]

InitTrees ==
    { << <<<<"s">>, << <<<<"c">>, << <<INIT, A7>>, <<PRODUCER, CP>>,
                                     <<STEPS, Decorated(steps, d, e)>> >>>> >>>> >> :
        steps \in InitStepLists, d \in DecorLists, e \in {ListV(<<>>), ListV(<<Dec2, Dec1>>)} }

InitInit ==
    /\ call \in PlainCalls
    /\ cnfg \in InitTrees
    /\ dcnfg = <<>>
    /\ seed \in Seeds
    /\ h = 0
    /\ Start

SpecInit == InitInit /\ [][Next]_vars

\* The steps of s__c as the caller wrote them.
GivenSteps == Get(Get(Get(cnfg, <<"s">>), <<"c">>), STEPS)

\* A step named '__init__' occurs at an index other than 0.
InitNotFirst == \E t \in 2..Len(GivenSteps) : GivenSteps[t][1] = INITSTEP

\* C23 as stated: when a step named '__init__' occurs at an index other
\* than 0 the build fails with the ordering error and no producer is
\* constructed; otherwise the producer is constructed with the kwargs of
\* the leading '__init__' step; and produce() never calls a step named
\* '__init__'.
C23_AsStated ==
    /\ InitNotFirst =>
          /\ log = <<>>
          /\ pc \notin {"produce", "done"}
          /\ (pc = "exec" /\ idx = 1) => err \in {"none", "IndexError"}
    /\ (~InitNotFirst /\ producer # NoProducer) =>
          producer.kwargs = IF Len(GivenSteps) > 0 /\ GivenSteps[1][1] = INITSTEP
                            THEN GivenSteps[1][2] ELSE EmptyDictV
    /\ \A m \in 1..Len(calls) : calls[m].method # <<"__init__">>

\* The names of the decorators a step was given, in the order given.
DecorNames(step) ==
    IF Len(step) < 3 THEN <<>> ELSE [i \in 1..Len(step[3].v) |-> step[3].v[i].v]

\* The steps of s__c that produce() runs: all but a leading '__init__'.
BuildSteps ==
    IF Len(GivenSteps) > 0 /\ GivenSteps[1][1] = INITSTEP THEN Tail(GivenSteps)
    ELSE GivenSteps

\* C24: a step with the decorators [d1, ..., dn] is called as
\* dn(...(d1(f))...), f being the bound method: the call enters dn first
\* and d1 last, and no wrapper when the list is empty; the same holds for
\* the producer class and the decorators of a leading '__init__' step.
C24_Composition ==
    /\ \A m \in 1..Len(calls) : calls[m].wraps = Reverse(DecorNames(BuildSteps[m]))
    /\ producer # NoProducer =>
          producer.wraps = IF BuildSteps = GivenSteps THEN <<>>
                           ELSE Reverse(DecorNames(GivenSteps[1]))

\* s__c was given ('__init__', {}, [decorator, decorator_2]) and
\* ('set', {'key': 'b'}, [decorator_2, decorator]): the constructor call
\* entered decorator_2 and then decorator, the call of set decorator and
\* then decorator_2, and s__c was built.
C24_Witness ==
    /\ pc = "done"
    /\ GivenSteps = << <<INITSTEP, EmptyDictV, ListV(<<Dec1, Dec2>>)>>,
                       <<S("set"), Kw1("key", S("b")), ListV(<<Dec2, Dec1>>)>> >>
    /\ producer.wraps = <<"decorator_2", "decorator">>
    /\ Len(calls) = 1
    /\ calls[1].wraps = <<"decorator", "decorator_2">>
    /\ objects[<<"s", "c">>] = DictV((S("a") :> IntV(7)) @@ (S("b") :> IntV(42)))

(***************************************************************************)
(* SpecPatch: s__c with a 'patch' whose entries are functions (a new       *)
(* method, a replacement of set) and names of methods (of set, of none)    *)
(***************************************************************************)
PatchMaps ==
    { <<>>,
      << <<<<"func_1">>, FuncV("func_1")>> >>,
      << <<<<"set">>, FuncV("func_1")>> >>,
      << <<<<"func_2">>, S("set")>> >>,
      << <<<<"func_2">>, S("nosuch")>> >>,
      << <<<<"func_1">>, FuncV("func_1")>>, <<<<"func_2">>, S("set")>> >> }

PatchStepPool ==
    { <<S("func_1"), Kw1("param", IntV(42))>>,
      <<S("set"), Kw1("param", IntV(42))>>,
      <<S("set"), Kw1("key", S("b"))>>,
      <<S("func_2"), Kw1("key", S("b"))>> }

PatchTrees ==
    { << <<<<"s">>, << <<<<"c">>, << <<INIT, A7>>, <<PRODUCER, CP>>,
                                     <<PATCH, patch>>, <<STEPS, steps>> >>>> >>>> >> :
        patch \in PatchMaps,
        steps \in { <<>> } \cup { <<a>> : a \in PatchStepPool }
                  \cup { <<a, b>> : a \in PatchStepPool, b \in PatchStepPool } }

InitPatch ==
    /\ call \in PlainCalls
    /\ cnfg \in PatchTrees
    /\ dcnfg = <<>>
    /\ seed = <<>>
    /\ h = 0
    /\ Start

SpecPatch == InitPatch /\ [][Next]_vars

\* The 'patch' of s__c as the caller wrote it.
GivenPatch == Get(Get(Get(cnfg, <<"s">>), <<"c">>), PATCH)

\* What a step named as the patch entry e is to invoke: the function given,
\* or the method of CustomProducer that the name given stands for.
PatchTarget(e) ==
    IF e[2].t = "func" THEN e[2].v ELSE ClassMethods("CustomProducer")[e[2].v]

\* C25 as stated: with a 'patch' whose entries are functions or names of
\* existing methods of the producer, patching raises no error, and a step
\* named as an entry invokes the function given, or the existing method
\* whose name was given.
C25_AsStated ==
    (\A i \in 1..Len(GivenPatch) :
        GivenPatch[i][2].t = "str" =>
           GivenPatch[i][2].v \in DOMAIN ClassMethods("CustomProducer"))
    => /\ ~(pc = "produce" /\ err = "TypeError" /\ calls = <<>>)
       /\ \A m \in 1..Len(calls) : \A i \in 1..Len(GivenPatch) :
             calls[m].method = GivenPatch[i][1]
                => calls[m].impl = PatchTarget(GivenPatch[i])

(***************************************************************************)
(* SpecSteps: s__c and s__d with steps of one to four elements, well-typed *)
(* or with a method that is no str, kwargs that are no dict, decorators    *)
(* that are no list                                                        *)
(***************************************************************************)
KeyB == Kw1("key", S("b"))

GoodSteps ==
    { <<S("print")>>,
      <<S("set"), KeyB>>,
      <<S("set"), KeyB, ListV(<<>>)>>,
      <<S("set"), KeyB, ListV(<<Dec1>>)>>,
      <<S("set"), KeyB, ListV(<<>>), IntV(1)>> }

BadSteps ==
    { <<IntV(5)>>,
      <<None, KeyB>>,
      <<IntV(5), None, None>>,
      <<S("set"), None>>,
      <<S("set"), ListV(<<>>)>>,
      <<S("set"), KeyB, None>>,
      <<S("set"), KeyB, EmptyDictV>>,
      <<S("set"), KeyB, S("decorator")>> }

StepLists ==
    { <<>> } \cup { <<a>> : a \in GoodSteps \cup BadSteps }
    \cup { <<a, b>> : a \in GoodSteps \cup BadSteps, b \in GoodSteps \cup BadSteps }

StepsTrees ==
    { << <<<<"s">>, << <<<<"c">>, << <<INIT, A7>>, <<PRODUCER, CP>>,
                                     <<STEPS, steps>> >>>>,
                       <<<<"d">>, << <<INIT, A7>>, <<PRODUCER, CP>>,
                                     <<STEPS, other>> >>>> >>>> >> :
        steps \in StepLists,
        other \in { << <<S("print")>> >>, << <<S("set"), KeyB, None>> >> } }

InitSteps ==
    /\ call \in PlainCalls
    /\ cnfg \in StepsTrees
    /\ dcnfg = <<>>
    /\ seed = <<>>
    /\ h \in {0, 1}
    /\ Start

SpecSteps == InitSteps /\ [][Next]_vars

\* The step's method is no str, its kwargs are given and no dict, or its
\* decorators are given and no list.
Malformed(step) ==
    \/ step[1].t # "str"
    \/ Len(step) > 1 /\ step[2].t # "dict"
    \/ Len(step) > 2 /\ step[3].t # "list"

\* The step with {} for missing kwargs and [] for missing decorators.
Padded(step) ==
    IF Len(step) = 1 THEN <<step[1], EmptyDictV, ListV(<<>>)>>
    ELSE IF Len(step) = 2 THEN <<step[1], step[2], ListV(<<>>)>>
    ELSE step

\* The steps of the sub-configuration sc as the caller wrote them.
GivenStepsOf(sc) == Get(Get(Get(cnfg, sc[1]), sc[2]), STEPS)

SomeMalformed ==
    \E sc \in SubConfsOf(cnfg) : \E t \in 1..Len(GivenStepsOf(sc)) :
       Malformed(GivenStepsOf(sc)[t])

\* C26: normalization fails, with TypeError, exactly when some step is
\* malformed: its method is no str, its kwargs are given and no dict, or
\* its decorators are given and no list; otherwise it succeeds and every
\* step has its elements as given, with {} and [] for the missing ones.
C26_StepsChecked ==
    /\ SomeMalformed =>
          /\ pc \in {"call", "merge"}
          /\ (pc = "merge" /\ err # "none") => err = "TypeError"
    /\ ~SomeMalformed =>
          /\ ~(pc = "merge" /\ err # "none")
          /\ pc = "resolve" =>
                \A sc \in SubConfsOf(cnfg) :
                   /\ Len(StepsOf(sc)) = Len(GivenStepsOf(sc))
                   /\ \A t \in 1..Len(StepsOf(sc)) :
                        StepsOf(sc)[t] = Padded(GivenStepsOf(sc)[t])

\* s__c has the steps ('print',) and ('set', {'key': 'b'}, 'decorator'),
\* s__d a step ('print',): the read failed in normalization with TypeError.
C26_Witness ==
    /\ pc = "merge"
    /\ err = "TypeError"
    /\ GivenStepsOf(ConfSC) = << <<S("print")>>, <<S("set"), KeyB, S("decorator")>> >>
    /\ GivenStepsOf(<<<<"s">>, <<"d">>>>) = << <<S("print")>> >>

(***************************************************************************)
(* SpecAlias: s__c with two steps whose arguments val and key_id are None  *)
(* or given, and lists and dicts as values of the 'global' entries val,    *)
(* key and key_id, with and without a section key                          *)
(***************************************************************************)
One == ListV(<<IntV(1)>>)

Ids == ListV(<<StrV(<<"key", "conf">>)>>)

AliasSteps ==
    { << <<S("set"), Kw2("key", S("a"), "val", x)>>,
         <<S("set"), Kw2("key", S("b"), "val", y)>> >> :
        x \in {None, One}, y \in {None, IntV(42)} }
    \cup { << <<S("print"), Kw1(a, None)>>, <<S("print"), Kw1(b, None)>> >> :
             a \in {"key", "key_id"}, b \in {"key", "key_id"} }

AliasGlobals ==
    { << <<<<"val">>, ListV(<<>>)>> >>,
      << <<<<"val">>, One>> >>,
      << <<<<"val">>, EmptyDictV>> >>,
      << <<<<"val">>, IntV(0)>> >>,
      << <<<<"key">>, Ids>> >>,
      << <<<<"key_id">>, Ids>> >> }

AliasTrees ==
    { tg \o << <<<<"s">>, << <<<<"c">>, << <<INIT, A7>>, <<PRODUCER, CP>>,
                                           <<STEPS, steps>> >> \o cg>> >>>> >>
         \o second :
        steps \in AliasSteps,
        tg \in { <<>>, << <<GLOBAL, << <<<<"val">>, ListV(<<>>)>> >>>> >> },
        cg \in { <<>> } \cup { << <<GLOBAL, g>> >> : g \in AliasGlobals },
        second \in { <<>>, << <<<<"key">>, << <<<<"conf">>, InitB>> >>>> >> } }

InitAlias ==
    /\ call \in {CallArgs("read", TRUE, "True"), CallArgs("read", TRUE, "False"),
                 CallArgs("run", TRUE, "absent")}
    /\ cnfg \in { t \in AliasTrees :
                    ~(Has(t, GLOBAL) /\ Has(Get(Get(t, <<"s">>), <<"c">>), GLOBAL)) }
    /\ dcnfg = <<>>
    /\ seed = <<>>
    /\ h \in {0, 1}
    /\ Start

SpecAlias == InitAlias /\ [][Next]_vars

\* The object x is one that a 'global' map holds.
HeldByGlobal(x) == "id" \in DOMAIN x

\* C27 as stated: after resolution, with or without None-resolution, no
\* step argument is the very object that a 'global' map holds (and so no
\* two step arguments filled from one entry are the same object): each is
\* a deep copy.
C27_AsStated ==
    Resolved =>
       \A sc \in SubConfsOf(p) : \A t \in 1..Len(StepsOf(sc)) :
          \A k \in DKeys(StepsOf(sc)[t][2]) : ~HeldByGlobal(StepsOf(sc)[t][2].v[k])

(***************************************************************************)
(* The build plan across exec()                                            *)
(***************************************************************************)
\* The list read() returned, as exec() received it.
PlanAsRead == arrange(p).p

\* C28: execution leaves the build plan unchanged: when exec() has
\* returned, every sub-configuration of configs has the steps (a leading
\* '__init__' step included), the step kwargs and the patch map that it had
\* when read() returned the list.
C28_AsStated == pc = "done" => configs = PlanAsRead

(***************************************************************************)
(* Cross-references between sub-configurations (on SpecSched)              *)
(***************************************************************************)
\* The sub-configuration a__b__c is scheduled earlier than configs[idx].
ScheduledEarlier == \E j \in 1..(idx - 1) : configs[j].name = ABC

\* The entry a__b__c is in the store before configs[idx] is built: built
\* earlier, or given by the caller.
InStoreBefore == ScheduledEarlier \/ ABC \in DOMAIN seed

\* C29: a step whose argument val is declared as the composite id a__b__c
\* receives the object stored under a__b__c if and only if a__b__c is
\* scheduled earlier than the step's sub-configuration or is in the caller's
\* store; otherwise (scheduled later, priority 0, or the sub-configuration
\* itself) the step is called with the identifier string and no error is
\* raised.
C29_CrossReference ==
    [][\A m \in (Len(calls) + 1)..Len(calls') :
          LET step == Get(configs[idx].val, STEPS)[m - Len(calls)]
              got == calls'[m].kwargs.v[S("val")]
          IN  (S("val") \in DKeys(step[2]) /\ step[2].v[S("val")] = StrV(ABC)) =>
                 /\ got # StrV(ABC) <=> InStoreBefore
                 /\ InStoreBefore => got = objects[ABC]
                 /\ (ScheduledEarlier /\ ABC \in DOMAIN seed) => got # seed[ABC]
                 /\ ~InStoreBefore => got = StrV(ABC) /\ err' = "none"]_vars

\* a__b__c (priority 1) and a__d (priority 2) both have the step
\* set(key='b', val='a__b__c'), and the caller's store is empty: the step of
\* a__b__c got the string, the step of a__d the object built for a__b__c.
C29_Witness ==
    /\ pc = "done"
    /\ seed = <<>>
    /\ Len(calls) = 2
    /\ calls[1].oid = ABC
    /\ calls[1].kwargs.v[S("val")] = StrV(ABC)
    /\ calls[2].oid = <<"a", "d">>
    /\ calls[2].kwargs.v[S("val")] = DictV((S("a") :> IntV(7)) @@ (S("b") :> StrV(ABC)))
    /\ objects[<<"a", "d">>].v[S("b")] = objects[ABC]

(***************************************************************************)
(* SpecErrors: trees with a malformed step, a bad priority, a repeated     *)
(* composite id or an ambiguous None argument, read and built with an      *)
(* empty and a non-empty store                                             *)
(***************************************************************************)
\* No priority, the priorities 0, 1 and 2, and values that are none.
ErrPriorities ==
    {<<>>} \cup { << <<PRIORITY, x>> >> :
                    x \in {IntV(0), IntV(1), IntV(2), IntV(-1), S("a"), None} }

\* No step, a step, a step whose argument key is None, and steps with no
\* str for the method, no dict for kwargs, no list for the decorators.
ErrStepLists ==
    { <<>>,
      << <<S("set"), Kw2("key", S("b"), "val", IntV(1))>> >>,
      << <<S("set"), Kw2("key", None, "val", IntV(1))>> >>,
      << <<IntV(1)>> >>,
      << <<S("set"), IntV(1)>> >>,
      << <<S("set"), Kw1("key", S("b")), S("a")>> >> }

ErrConfs ==
    { << <<INIT, A7>>, <<PRODUCER, CP>>, <<STEPS, steps>> >> \o pr :
        steps \in ErrStepLists, pr \in ErrPriorities }

\* The second sub-configuration.
ErrOthers ==
    { << <<INIT, Kw1("a", IntV(1))>>, <<PRODUCER, CP>>, <<STEPS, steps>> >> \o pr :
        steps \in {<<>>, << <<S("set"), Kw2("key", S("b"), "val", IntV(1))>> >>},
        pr \in {<<>>, << <<PRIORITY, IntV(0)>> >>, << <<PRIORITY, IntV(2)>> >>,
                << <<PRIORITY, IntV(-1)>> >>} }

\* No section 'key', and the section with one and with two sub-configurations.
KeySections ==
    { <<>>,
      << <<<<"key">>, << <<<<"conf">>, << <<INIT, S("b")>> >>>> >>>> >>,
      << <<<<"key">>, << <<<<"conf">>, << <<INIT, S("b")>> >>>>,
                         <<<<"d">>, << <<INIT, S("c")>> >>>> >>>> >> }

\* Sections 'a' with 'b__c' and 'd', or 'a' with 'b__c' and 'a__b' with 'c'.
ErrTrees ==
    UNION { { << <<<<"a">>, << <<<<"b", "c">>, x>>, <<<<"d">>, y>> >>>> >> \o ks,
              << <<<<"a">>, << <<<<"b", "c">>, x>> >>>>,
                 <<<<"a", "b">>, << <<<<"c">>, y>> >>>> >> \o ks } :
            x \in ErrConfs, y \in ErrOthers, ks \in KeySections }

InitErrors ==
    /\ call \in PlainCalls \cup {CallArgs("read", TRUE, "True")}
    /\ cnfg \in ErrTrees
    /\ dcnfg = <<>>
    /\ seed \in Seeds
    /\ h \in {0, 1}
    /\ Start

SpecErrors == InitErrors /\ [][Next]_vars

\* The phases of read().
ReadPhases == {"call", "merge", "resolve", "arrange"}

\* The sub-configurations of the given tree that have steps.
WithSteps == { sc \in SubConfsOf(cnfg) : Has(Get(Get(cnfg, sc[1]), sc[2]), STEPS) }

\* Some step of the given tree is malformed.
MalformedStepGiven ==
    \E sc \in WithSteps : \E t \in 1..Len(GivenStepsOf(sc)) : Malformed(GivenStepsOf(sc)[t])

\* Some priority of the given tree is no int or is negative.
BadPriorityGiven ==
    \E sc \in SubConfsOf(cnfg) :
       LET conf == Get(Get(cnfg, sc[1]), sc[2])
       IN  Has(conf, PRIORITY) /\ (Get(conf, PRIORITY).t # "int" \/ Get(conf, PRIORITY).v < 0)

\* Two sub-configurations of the given tree, of priorities that are not 0,
\* have the same composite id.
DuplicateIdGiven ==
    \E sc, sd \in SubConfsOf(cnfg) :
       /\ sc # sd
       /\ sc[1] \o sc[2] = sd[1] \o sd[2]
       /\ \A x \in {sc, sd} :
             LET conf == Get(Get(cnfg, x[1]), x[2])
             IN  Has(conf, PRIORITY) => Get(conf, PRIORITY) # IntV(0)

\* None-resolution is asked for, a step's argument key is None and the
\* section 'key' has more than one sub-configuration (no global names key).
AmbiguousNoneGiven ==
    /\ call.entry = "read" /\ call.noneArg = "True"
    /\ Has(cnfg, <<"key">>) /\ Len(Get(cnfg, <<"key">>)) > 1
    /\ \E sc \in WithSteps : \E t \in 1..Len(GivenStepsOf(sc)) :
          LET step == GivenStepsOf(sc)[t]
          IN  /\ Len(step) > 1 /\ step[2].t = "dict"
              /\ S("key") \in DKeys(step[2]) /\ step[2].v[S("key")] = None

\* C30: a failure of normalization, of global/None resolution or of
\* scheduling happens inside read(), before anything is built: no init
\* factory has been called, no producer constructed and no step run, and the
\* caller's store has exactly its original entries.  A tree with a malformed
\* step, a bad priority, a repeated composite id or an ambiguous None
\* argument never gets past read().
C30_DetectedInRead ==
    /\ (pc \in ReadPhases /\ err # "none") =>
          /\ log = <<>>
          /\ calls = <<>>
          /\ producer = NoProducer
          /\ res = None
          /\ configs = <<>>
          /\ objects = seed
    /\ (MalformedStepGiven \/ BadPriorityGiven \/ DuplicateIdGiven \/ AmbiguousNoneGiven) =>
          /\ pc \in ReadPhases
          /\ log = <<>> /\ calls = <<>> /\ objects = seed

\* The read of a tree whose a__b__c has priority -1 and whose a__d, with a
\* step, has none failed in scheduling; the caller's store {'a__b': 7} is as
\* it was and nothing was built.
C30_Witness ==
    /\ pc = "arrange"
    /\ err = ErrPriority
    /\ seed = (<<"a", "b">> :> IntV(7))
    /\ objects = seed
    /\ log = <<>>
    /\ Has(Get(cnfg, <<"a">>), <<"d">>)
    /\ Has(Get(Get(cnfg, <<"a">>), <<"b", "c">>), PRIORITY)
    /\ Get(Get(Get(cnfg, <<"a">>), <<"b", "c">>), PRIORITY) = IntV(-1)
    /\ Get(Get(Get(cnfg, <<"a">>), <<"d">>), STEPS) # <<>>
    /\ ~Has(Get(Get(cnfg, <<"a">>), <<"d">>), PRIORITY)
====
